---- MODULE Spec2Model ----
(***************************************************************************)
(* Model of the tree-markdown-parser core: indentation resolution, line    *)
(* tokenization, tree building with leaf classification, and the plain     *)
(* text renderer.  Strings are sequences of one-character atoms.           *)
(***************************************************************************)
EXTENDS Integers, Sequences, FiniteSets, TLC

(***************************************************************************)
(* Characters.  The box-drawing glyphs stand for themselves under an ASCII  *)
(* name: PIPE is U+2502, TEE is U+251C, ELBOW is U+2514, HBAR is U+2500.    *)
(* A character that cannot be written in a string is named by its code      *)
(* point in the same way.                                                   *)
(***************************************************************************)
SP == " "
TAB == "\t"
LF == "\n"
CR == "\r"
FF == "\f"
PIPE == "U+2502"
TEE == "U+251C"
ELBOW == "U+2514"
HBAR == "U+2500"
DASH == "-"
SLASH == "/"
DOT == "."
LPAREN == "("

\* line[cursor] of the source, cursor counted from 0; past the end it is undefined.
Undefined == "undefined"
At(line, cursor) ==
  IF cursor >= 0 /\ cursor < Len(line) THEN line[cursor + 1] ELSE Undefined

\* String.prototype.slice(start) / slice(start, end) for 0 <= start.
SliceFrom(s, start) ==
  IF start >= Len(s) THEN << >> ELSE SubSeq(s, start + 1, Len(s))
Slice(s, start, end) ==
  IF start >= end THEN << >> ELSE SubSeq(s, start + 1, end)

\* The line terminators of the language: the dot of a regular expression
\* matches none of them.
LineTerminators == {LF, CR, "U+2028", "U+2029"}

\* White space and line terminators: what String.prototype.trim removes and
\* what \s of a regular expression matches.  Besides the space, the tab and
\* the form feed: the vertical tab, the no-break space, the byte order mark
\* and the space separators of category Zs.
WhiteSpaceChars ==
  {SP, TAB, FF, "U+000B", "U+00A0", "U+FEFF",
   "U+1680", "U+2000", "U+2001", "U+2002", "U+2003", "U+2004", "U+2005",
   "U+2006", "U+2007", "U+2008", "U+2009", "U+200A", "U+202F", "U+205F",
   "U+3000"} \cup LineTerminators

\* The white space String.prototype.trim removes.
IsWhitespace(c) == c \in WhiteSpaceChars

RECURSIVE TrimStart(_)
TrimStart(s) ==
  IF s # << >> /\ IsWhitespace(Head(s)) THEN TrimStart(Tail(s)) ELSE s

RECURSIVE TrimEnd(_)
TrimEnd(s) ==
  IF s # << >> /\ IsWhitespace(s[Len(s)])
    THEN TrimEnd(SubSeq(s, 1, Len(s) - 1))
    ELSE s

Trim(s) == TrimEnd(TrimStart(s))

\* The RangeError String.prototype.repeat throws for a negative count.
RangeError(count) ==
  [name |-> "RangeError",
   message |-> "Invalid count value: " \o ToString(count)]

\* " ".repeat(n): the string, or for n < 0 the RangeError the call throws.
RECURSIVE Repeat(_, _)
Repeat(c, n) ==
  IF n < 0 THEN RangeError(n)
  ELSE IF n = 0 THEN << >>
  ELSE <<c>> \o Repeat(c, n - 1)

(***************************************************************************)
(* Numbers.  A number is an integer or one of the two values Infinity and   *)
(* NaN that a division by zero produces.                                    *)
(***************************************************************************)
Infinity == "Infinity"
NaN == "NaN"

IsInfinity(x) == ToString(x) = ToString(Infinity)
IsNaN(x) == ToString(x) = ToString(NaN)

\* a + b
JsAdd(a, b) ==
  IF IsNaN(a) \/ IsNaN(b) THEN NaN
  ELSE IF IsInfinity(a) \/ IsInfinity(b) THEN Infinity
  ELSE a + b

\* a > b
JsGreater(a, b) ==
  IF IsNaN(a) \/ IsNaN(b) THEN FALSE
  ELSE IF IsInfinity(a) THEN ~IsInfinity(b)
  ELSE IF IsInfinity(b) THEN FALSE
  ELSE a > b

\* a % b !== 0 for an integer a >= 0 and an integer b: the remainder has the
\* sign of a, and it is NaN, which differs from 0, when b is 0.
RemainderIsNotZero(a, b) ==
  IF b = 0 THEN TRUE
  ELSE IF b > 0 THEN a % b # 0
  ELSE a % (0 - b) # 0

\* Math.floor(a / b) for an integer a >= 0 and an integer b.
FloorOfQuotient(a, b) ==
  IF b = 0 THEN (IF a = 0 THEN NaN ELSE Infinity)
  ELSE IF b > 0 THEN a \div b
  ELSE 0 - ((a + (0 - b) - 1) \div (0 - b))

\* const value = ...; Body(value): the value is computed once and named.
Bind(value, Body(_)) == Body(value)

(***************************************************************************)
(* Errors.  A call either returns or throws; NoError marks "nothing thrown". *)
(* A call that does neither, because a loop of it does not end, is marked   *)
(* by NoReturn in the place of the error.                                   *)
(***************************************************************************)
NoError == [name |-> "", message |-> "", line |-> 0]
NoReturn == [name |-> "NoReturn", message |-> "does not return", line |-> 0]

TreeParseError(message, line) ==
  [name |-> "TreeParseError",
   message |-> "Line " \o ToString(line) \o ": " \o message,
   line |-> line]

(***************************************************************************)
(* Options.  An optional field is a sequence of length 0 (absent) or 1.     *)
(***************************************************************************)
DefaultTabWidth == 2
DefaultIndentWidth == 2

resolveOptions(options) ==
  [mode |-> IF options.mode = << >> THEN "tolerant" ELSE options.mode[1],
   tabWidth |-> IF options.tabWidth = << >> THEN DefaultTabWidth
                ELSE options.tabWidth[1],
   indentWidth |-> IF options.indentWidth = << >> THEN DefaultIndentWidth
                   ELSE options.indentWidth[1]]

\* Mutation: the mode test inverted.
throwIfStrictInverted(mode, error) == IF mode = "strict" THEN NoError ELSE error

throwIfStrict(mode, error) == IF mode # "strict" THEN NoError ELSE error

(***************************************************************************)
(* normalizeIndentation                                                    *)
(***************************************************************************)
\* Length of the leading run of spaces and tabs (idx after the first loop).
RECURSIVE LeadingRun(_, _)
LeadingRun(rawLine, idx) ==
  IF idx < Len(rawLine) /\ At(rawLine, idx) \in {SP, TAB}
    THEN LeadingRun(rawLine, idx + 1)
    ELSE idx

\* Mutation: replace instead of replaceAll, only the first tab is expanded.
RECURSIVE ReplaceFirstTab(_, _)
ReplaceFirstTab(s, tabWidth) ==
  IF s = << >> THEN << >>
  ELSE IF Head(s) = TAB THEN Repeat(SP, tabWidth) \o Tail(s)
  ELSE <<Head(s)>> \o ReplaceFirstTab(Tail(s), tabWidth)

\* leading.replaceAll("\t", " ".repeat(tabWidth))
RECURSIVE ReplaceAllTabs(_, _)
ReplaceAllTabs(s, tabWidth) ==
  IF s = << >> THEN << >>
  ELSE (IF Head(s) = TAB THEN Repeat(SP, tabWidth) ELSE <<Head(s)>>)
         \o ReplaceAllTabs(Tail(s), tabWidth)

normalizeIndentation(rawLine, options, lineNumber) ==
  LET idx == LeadingRun(rawLine, 0)
      hasTab == \E i \in 1..idx : rawLine[i] = TAB
      hasSpace == \E i \in 1..idx : rawLine[i] = SP
      thrown == IF hasTab /\ hasSpace
                  THEN throwIfStrict(options.mode,
                         TreeParseError("Mixed tabs and spaces in indentation",
                                        lineNumber))
                  ELSE NoError
  IN  IF thrown # NoError THEN [thrown |-> thrown, line |-> << >>]
      ELSE IF ~hasTab THEN [thrown |-> NoError, line |-> rawLine]
      ELSE IF options.tabWidth < 0
        THEN [thrown |-> Repeat(SP, options.tabWidth), line |-> << >>]
      ELSE [thrown |-> NoError,
            line |-> ReplaceAllTabs(Slice(rawLine, 0, idx), options.tabWidth)
                       \o SliceFrom(rawLine, idx)]

(***************************************************************************)
(* readIndentUnits                                                         *)
(***************************************************************************)
RECURSIVE readSpaces(_, _)
readSpaces(line, cursor) ==
  IF cursor < Len(line) /\ At(line, cursor) = SP
    THEN 1 + readSpaces(line, cursor + 1)
    ELSE 0

\* consumePipeIndent: steps over the connector and the spaces after it; the
\* value it returns (counts) is true on every path that does not throw.
consumePipeIndent(line, cursor, options, lineNumber) ==
  LET spaceCount == readSpaces(line, cursor + 1)
  IN  [thrown |-> IF spaceCount = 0
                    THEN throwIfStrict(options.mode,
                           TreeParseError(
                             "Invalid tree prefix after vertical connector",
                             lineNumber))
                    ELSE NoError,
       counts |-> TRUE,
       cursor |-> cursor + 1 + spaceCount]

\* Mutation: a run that is not a multiple of indentWidth is rounded up.
consumeSpaceIndentRoundingUp(line, cursor, options, lineNumber) ==
  LET spaceCount == readSpaces(line, cursor)
  IN  [thrown |-> IF spaceCount % options.indentWidth # 0
                    THEN throwIfStrict(options.mode,
                           TreeParseError(
                             "Indentation not aligned to indentWidth",
                             lineNumber))
                    ELSE NoError,
       levels |-> (spaceCount + options.indentWidth - 1) \div options.indentWidth,
       cursor |-> cursor + spaceCount]

consumeSpaceIndent(line, cursor, options, lineNumber) ==
  LET spaceCount == readSpaces(line, cursor)
  IN  [thrown |-> IF RemainderIsNotZero(spaceCount, options.indentWidth)
                    THEN throwIfStrict(options.mode,
                           TreeParseError(
                             "Indentation not aligned to indentWidth",
                             lineNumber))
                    ELSE NoError,
       levels |-> FloorOfQuotient(spaceCount, options.indentWidth),
       cursor |-> cursor + spaceCount]

\* The while loop of readIndentUnits, from (level, cursor) on.
RECURSIVE IndentLoop(_, _, _, _, _)
IndentLoop(line, options, lineNumber, level, cursor) ==
  IF cursor < Len(line) /\ At(line, cursor) = PIPE THEN
    Bind(consumePipeIndent(line, cursor, options, lineNumber), LAMBDA p :
      IF p.thrown # NoError
        THEN [thrown |-> p.thrown, level |-> level, cursor |-> p.cursor]
        ELSE IndentLoop(line, options, lineNumber,
                        IF p.counts THEN JsAdd(level, 1) ELSE level, p.cursor))
  ELSE IF cursor < Len(line) /\ At(line, cursor) = SP THEN
    Bind(consumeSpaceIndent(line, cursor, options, lineNumber), LAMBDA s :
      IF s.thrown # NoError
        THEN [thrown |-> s.thrown, level |-> level, cursor |-> s.cursor]
        ELSE IndentLoop(line, options, lineNumber, JsAdd(level, s.levels),
                        s.cursor))
  ELSE [thrown |-> NoError, level |-> level, cursor |-> cursor]

readIndentUnits(line, options, lineNumber) ==
  IndentLoop(line, options, lineNumber, 0, 0)

(***************************************************************************)
(* readBranchPrefix                                                        *)
(***************************************************************************)
RECURSIVE SkipHorizontal(_, _)
SkipHorizontal(line, next) ==
  IF At(line, next) \in {HBAR, DASH} THEN SkipHorizontal(line, next + 1) ELSE next

readBranchPrefix(line, cursor) ==
  IF At(line, cursor) # TEE /\ At(line, cursor) # ELBOW
    THEN [levelBoost |-> 0, cursor |-> cursor]
    ELSE LET next == SkipHorizontal(line, cursor + 1)
         IN  [levelBoost |-> 1,
              cursor |-> IF At(line, next) = SP THEN next + 1 ELSE next]

(***************************************************************************)
(* parseIndentation                                                        *)
(***************************************************************************)
\* const content = line.slice(cursor).trim() and the check that follows it.
ExtractContent(level, content, options, lineNumber) ==
  Bind(IF content = << >>
         THEN throwIfStrict(options.mode,
                            TreeParseError("Empty tree line", lineNumber))
         ELSE NoError,
       LAMBDA thrown :
         IF thrown # NoError
           THEN [thrown |-> thrown, level |-> 0, content |-> << >>]
           ELSE [thrown |-> NoError, level |-> level, content |-> content])

\* Mutation: the branch boost replaces the scanned levels instead of adding to them.
CombineLevelsAlternative(indentLevel, levelBoost) ==
  IF levelBoost > 0 THEN levelBoost ELSE indentLevel

\* const level = indent.level + branch.levelBoost
CombineLevels(indentLevel, levelBoost) == JsAdd(indentLevel, levelBoost)

parseIndentation(rawLine, options, lineNumber) ==
  Bind(normalizeIndentation(rawLine, options, lineNumber), LAMBDA norm :
    IF norm.thrown # NoError
      THEN [thrown |-> norm.thrown, level |-> 0, content |-> << >>]
    ELSE Bind(readIndentUnits(norm.line, options, lineNumber), LAMBDA indent :
      IF indent.thrown # NoError
        THEN [thrown |-> indent.thrown, level |-> 0, content |-> << >>]
      ELSE Bind(readBranchPrefix(norm.line, indent.cursor), LAMBDA branch :
        ExtractContent(CombineLevels(indent.level, branch.levelBoost),
                       Trim(SliceFrom(norm.line, branch.cursor)),
                       options, lineNumber))))

(***************************************************************************)
(* tokenizeLines                                                           *)
(***************************************************************************)
\* input.split(/\r?\n/): a line feed ends a line, and a carriage return
\* directly before it belongs to the terminator.
RECURSIVE SplitFrom(_, _)
SplitFrom(input, cur) ==
  IF input = << >> THEN <<cur>>
  ELSE IF Head(input) = LF
    THEN <<IF cur # << >> /\ cur[Len(cur)] = CR
             THEN SubSeq(cur, 1, Len(cur) - 1) ELSE cur>>
           \o SplitFrom(Tail(input), << >>)
    ELSE SplitFrom(Tail(input), Append(cur, Head(input)))

SplitLines(input) == SplitFrom(input, << >>)

endsWith(s, c) == s # << >> /\ s[Len(s)] = c

NoToken == [name |-> << >>, level |-> 0, explicitFolder |-> FALSE, line |-> 0]

\* Mutation: tolerant mode pushes the token of an empty name instead of
\* dropping the line.
TokenOfKeepingEmptyName(level, content, lineNumber, resolved) ==
  LET explicitFolder == endsWith(content, SLASH)
      name == IF explicitFolder
                THEN Trim(Slice(content, 0, Len(content) - 1))
                ELSE Trim(content)
  IN  IF name = << >> /\ resolved.mode = "strict"
        THEN [thrown |-> TreeParseError("Invalid empty node name", lineNumber),
              skip |-> TRUE, token |-> NoToken]
        ELSE [thrown |-> NoError, skip |-> FALSE,
              token |-> [name |-> name, level |-> level,
                         explicitFolder |-> explicitFolder, line |-> lineNumber]]

\* Mutation: every trailing folder marker is removed from the name, not one.
RECURSIVE StripSlashes(_)
StripSlashes(content) ==
  IF endsWith(content, SLASH)
    THEN StripSlashes(Trim(Slice(content, 0, Len(content) - 1)))
    ELSE content

TokenOfStrippingAllMarkers(level, content, lineNumber, resolved) ==
  LET explicitFolder == endsWith(content, SLASH)
      name == StripSlashes(Trim(content))
  IN  IF name = << >>
        THEN [thrown |-> IF resolved.mode = "strict"
                           THEN TreeParseError("Invalid empty node name", lineNumber)
                           ELSE NoError,
              skip |-> TRUE, token |-> NoToken]
        ELSE [thrown |-> NoError, skip |-> FALSE,
              token |-> [name |-> name, level |-> level,
                         explicitFolder |-> explicitFolder, line |-> lineNumber]]

\* The callback of tokenizeLines once parseIndentation has returned (level,
\* content): it throws, or pushes one token, or returns without pushing (skip).
TokenOf(level, content, lineNumber, resolved) ==
  LET explicitFolder == endsWith(content, SLASH)
      name == IF explicitFolder
                THEN Trim(Slice(content, 0, Len(content) - 1))
                ELSE Trim(content)
  IN  IF name = << >>
        THEN [thrown |-> IF resolved.mode = "strict"
                           THEN TreeParseError("Invalid empty node name", lineNumber)
                           ELSE NoError,
              skip |-> TRUE, token |-> NoToken]
        ELSE [thrown |-> NoError, skip |-> FALSE,
              token |-> [name |-> name, level |-> level,
                         explicitFolder |-> explicitFolder, line |-> lineNumber]]

\* Mutation: the zero-based index used as the line number.
LineNumberZeroBased(index) == index

\* const lineNumber = index + 1
LineNumber(index) == index + 1

\* The forEach callback of tokenizeLines on lines[index] (index from 0).
\* Mutation: the test for a blank line dropped.
TokenizeLineNoBlankTest(rawLine, index, resolved) ==
  Bind(parseIndentation(rawLine, resolved, LineNumber(index)), LAMBDA ind :
    IF ind.thrown # NoError
      THEN [thrown |-> ind.thrown, skip |-> TRUE, token |-> NoToken]
      ELSE TokenOf(ind.level, ind.content, LineNumber(index), resolved))

TokenizeLine(rawLine, index, resolved) ==
  IF Trim(rawLine) = << >>
    THEN [thrown |-> NoError, skip |-> TRUE, token |-> NoToken]
    ELSE Bind(parseIndentation(rawLine, resolved, LineNumber(index)), LAMBDA ind :
           IF ind.thrown # NoError
             THEN [thrown |-> ind.thrown, skip |-> TRUE, token |-> NoToken]
             ELSE TokenOf(ind.level, ind.content, LineNumber(index), resolved))

RECURSIVE TokenizeFrom(_, _, _, _)
TokenizeFrom(lines, index, resolved, tokens) ==
  IF index >= Len(lines) THEN [thrown |-> NoError, tokens |-> tokens]
  ELSE Bind(TokenizeLine(lines[index + 1], index, resolved), LAMBDA r :
         IF r.thrown # NoError THEN [thrown |-> r.thrown, tokens |-> << >>]
         ELSE TokenizeFrom(lines, index + 1, resolved,
                           IF r.skip THEN tokens ELSE Append(tokens, r.token)))

tokenizeLines(input, options) ==
  TokenizeFrom(SplitLines(input), 0, resolveOptions(options), << >>)

(***************************************************************************)
(* buildTree.  Working nodes live in a heap: nodes[id] is the object with   *)
(* identity id; roots, stack and children hold identities.                  *)
(***************************************************************************)
EmptyBuild == [nodes |-> << >>, roots |-> << >>, stack |-> << >>]

\* stack.at(-1); 0 stands for undefined (identities start at 1).
stackTop(stack) == IF stack = << >> THEN 0 ELSE stack[Len(stack)]

\* Mutation: a depth jump throws in tolerant mode too.
ClampLevelAlwaysThrows(token, stack, resolved) ==
  IF token.level > Len(stack)
    THEN [thrown |-> TreeParseError("Non-monotonic indentation", token.line),
          level |-> token.level]
    ELSE [thrown |-> NoError, level |-> token.level]

\* Mutation: a depth jump is clamped in strict mode too.
ClampLevelNeverThrows(token, stack, resolved) ==
  [thrown |-> NoError,
   level |-> IF token.level > Len(stack) THEN Len(stack) ELSE token.level]

\* Mutation: a depth jump is clamped to the top level instead of stack.length.
ClampLevelToRoot(token, stack, resolved) ==
  IF token.level > Len(stack)
    THEN IF resolved.mode = "strict"
           THEN [thrown |-> TreeParseError("Non-monotonic indentation", token.line),
                 level |-> token.level]
           ELSE [thrown |-> NoError, level |-> 0]
    ELSE [thrown |-> NoError, level |-> token.level]

\* Mutation: tolerant mode sets the level to stack.length for every token, not
\* only for a token that is too deep.
ClampLevelTolerantAlwaysDeepest(token, stack, resolved) ==
  IF resolved.mode = "strict"
    THEN IF token.level > Len(stack)
           THEN [thrown |-> TreeParseError("Non-monotonic indentation", token.line),
                 level |-> token.level]
           ELSE [thrown |-> NoError, level |-> token.level]
    ELSE [thrown |-> NoError, level |-> Len(stack)]

\* level > stack.length, with the mode deciding between throwing and clamping.
ClampLevel(token, stack, resolved) ==
  IF JsGreater(token.level, Len(stack))
    THEN IF resolved.mode = "strict"
           THEN [thrown |-> TreeParseError("Non-monotonic indentation", token.line),
                 level |-> token.level]
           ELSE [thrown |-> NoError, level |-> Len(stack)]
    ELSE [thrown |-> NoError, level |-> token.level]

\* Mutation: the pop loop stops one entry early.
PopToOffByOne(stack, level) ==
  IF Len(stack) > level + 1 THEN SubSeq(stack, 1, level + 1) ELSE stack

\* while (stack.length > level) stack.pop(): the stack after the loop, or
\* NoReturn when the loop does not end: popping leaves stack.length at 0,
\* which stays greater than a negative level.
PopTo(stack, level) ==
  IF JsGreater(0, level) THEN NoReturn
  ELSE IF JsGreater(Len(stack), level) THEN SubSeq(stack, 1, level)
  ELSE stack

\* Mutation: a child is put in front of its siblings (unshift for push).
AttachNodeInFront(b, token, level) ==
  LET stack1 == PopTo(b.stack, level)
      id == Len(b.nodes) + 1
      node == [name |-> token.name, explicitFolder |-> token.explicitFolder,
               children |-> << >>]
  IN  IF stack1 = << >>
        THEN [thrown |-> NoError,
              build |-> [nodes |-> Append(b.nodes, node),
                         roots |-> Append(b.roots, id),
                         stack |-> Append(stack1, id)]]
        ELSE [thrown |-> NoError,
              build |-> [nodes |-> Append(
                           [b.nodes EXCEPT ![stackTop(stack1)].children =
                              <<id>> \o @],
                           node),
                         roots |-> b.roots,
                         stack |-> Append(stack1, id)]]

\* Mutation: the new node takes the place of the stack's top instead of being
\* pushed on it.
AttachNodeReplacingTop(b, token, level) ==
  LET stack1 == PopTo(b.stack, level)
      id == Len(b.nodes) + 1
      node == [name |-> token.name, explicitFolder |-> token.explicitFolder,
               children |-> << >>]
  IN  IF stack1 = << >>
        THEN [thrown |-> NoError,
              build |-> [nodes |-> Append(b.nodes, node),
                         roots |-> Append(b.roots, id),
                         stack |-> <<id>>]]
        ELSE [thrown |-> NoError,
              build |-> [nodes |-> Append(
                           [b.nodes EXCEPT ![stackTop(stack1)].children =
                              Append(@, id)],
                           node),
                         roots |-> b.roots,
                         stack |-> Append(SubSeq(stack1, 1, Len(stack1) - 1), id)]]

\* The loop body after the level is settled: pop, create the node, attach, push.
\* When the pop loop does not end, nothing after it is run.
AttachNode(b, token, level) ==
  LET stack1 == PopTo(b.stack, level)
      id == Len(b.nodes) + 1
      node == [name |-> token.name, explicitFolder |-> token.explicitFolder,
               children |-> << >>]
  IN  IF JsGreater(0, level) THEN [thrown |-> NoReturn, build |-> b]
      ELSE IF stack1 = << >>
        THEN [thrown |-> NoError,
              build |-> [nodes |-> Append(b.nodes, node),
                         roots |-> Append(b.roots, id),
                         stack |-> Append(stack1, id)]]
      ELSE IF stackTop(stack1) = 0
        THEN [thrown |-> TreeParseError("Invalid tree structure", token.line),
              build |-> b]
        ELSE [thrown |-> NoError,
              build |-> [nodes |-> Append(
                           [b.nodes EXCEPT ![stackTop(stack1)].children =
                              Append(@, id)],
                           node),
                         roots |-> b.roots,
                         stack |-> Append(stack1, id)]]

\* One iteration of the for loop of buildTree.
BuildToken(b, token, resolved) ==
  Bind(ClampLevel(token, b.stack, resolved), LAMBDA c :
    IF c.thrown # NoError THEN [thrown |-> c.thrown, build |-> b]
    ELSE AttachNode(b, token, c.level))

\* Characters of the model's alphabet that match [A-Za-z].
LowerLetters ==
  {"a", "b", "c", "d", "e", "f", "g", "h", "i", "j", "k", "l", "m",
   "n", "o", "p", "q", "r", "s", "t", "u", "v", "w", "x", "y", "z"}
UpperLetters ==
  {"A", "B", "C", "D", "E", "F", "G", "H", "I", "J", "K", "L", "M",
   "N", "O", "P", "Q", "R", "S", "T", "U", "V", "W", "X", "Y", "Z"}
IsLetter(c) == c \in LowerLetters \cup UpperLetters

toUpperCaseChar(c) ==
  CASE c = "a" -> "A" [] c = "b" -> "B" [] c = "c" -> "C" [] c = "d" -> "D"
    [] c = "e" -> "E" [] c = "f" -> "F" [] c = "g" -> "G" [] c = "h" -> "H"
    [] c = "i" -> "I" [] c = "j" -> "J" [] c = "k" -> "K" [] c = "l" -> "L"
    [] c = "m" -> "M" [] c = "n" -> "N" [] c = "o" -> "O" [] c = "p" -> "P"
    [] c = "q" -> "Q" [] c = "r" -> "R" [] c = "s" -> "S" [] c = "t" -> "T"
    [] c = "u" -> "U" [] c = "v" -> "V" [] c = "w" -> "W" [] c = "x" -> "X"
    [] c = "y" -> "Y" [] c = "z" -> "Z"
    [] OTHER -> c

toUpperCase(s) == [i \in 1..Len(s) |-> toUpperCaseChar(s[i])]

\* s.indexOf(c), from 0; -1 when absent.
RECURSIVE IndexFrom(_, _, _)
IndexFrom(s, c, i) ==
  IF i >= Len(s) THEN -1 ELSE IF s[i + 1] = c THEN i ELSE IndexFrom(s, c, i + 1)

indexOf(s, c) == IndexFrom(s, c, 0)

includes(s, c) == \E i \in 1..Len(s) : s[i] = c

\* prefix.replaceAll(/[^A-Za-z]/g, "")
RECURSIVE LettersOf(_)
LettersOf(s) ==
  IF s = << >> THEN << >>
  ELSE (IF IsLetter(Head(s)) THEN <<Head(s)>> ELSE << >>) \o LettersOf(Tail(s))

\* Math.min over the indices that are >= 0, or -1 when there is none.
SplitIndex(spaceIndex, parenIndex) ==
  IF spaceIndex >= 0 /\ parenIndex >= 0
    THEN (IF spaceIndex < parenIndex THEN spaceIndex ELSE parenIndex)
  ELSE IF spaceIndex >= 0 THEN spaceIndex
  ELSE IF parenIndex >= 0 THEN parenIndex
  ELSE -1

AllUpper(letters) == Len(letters) > 0 /\ letters = toUpperCase(letters)

\* Mutation: the letters of the whole name are tested, not those before the
\* first space or parenthesis.
isAllCapsWholeName(name) == AllUpper(LettersOf(Trim(name)))

isAllCaps(name) ==
  Bind(Trim(name), LAMBDA trimmed :
    Bind(SplitIndex(indexOf(trimmed, SP), indexOf(trimmed, LPAREN)),
         LAMBDA splitIndex :
           AllUpper(LettersOf(IF splitIndex >= 0
                                THEN Slice(trimmed, 0, splitIndex)
                                ELSE trimmed))))

\* Mutation: only a dot that is neither the first nor the last character counts.
NodeTypeInnerDotOnly(node, nChildren) ==
  IF nChildren > 0 \/ node.explicitFolder THEN "folder"
  ELSE IF (\E i \in 2..(Len(node.name) - 1) : node.name[i] = DOT)
            \/ isAllCaps(node.name) THEN "file"
  ELSE "folder"

\* Mutation: the children test dropped from the folder condition.
NodeTypeIgnoringChildren(node, nChildren) ==
  IF node.explicitFolder THEN "folder"
  ELSE IF includes(node.name, DOT) \/ isAllCaps(node.name) THEN "file"
  ELSE "folder"

\* Mutation: the explicit marker dropped from the folder condition.
NodeTypeIgnoringMarker(node, nChildren) ==
  IF nChildren > 0 THEN "folder"
  ELSE IF includes(node.name, DOT) \/ isAllCaps(node.name) THEN "file"
  ELSE "folder"

\* The type finalizeNode gives a working node that has nChildren children.
NodeType(node, nChildren) ==
  IF nChildren > 0 \/ node.explicitFolder THEN "folder"
  ELSE IF includes(node.name, DOT) \/ isAllCaps(node.name) THEN "file"
  ELSE "folder"

\* finalizeNode on the working node nodes[id]: a fresh nested TreeNode.
RECURSIVE finalizeNode(_, _)
finalizeNode(nodes, id) ==
  Bind([k \in 1..Len(nodes[id].children) |->
          finalizeNode(nodes, nodes[id].children[k])],
       LAMBDA children :
         [name |-> nodes[id].name,
          type |-> NodeType(nodes[id], Len(children)),
          children |-> children])

\* roots.map(finalizeNode)
FinalizeRoots(b) == [k \in 1..Len(b.roots) |-> finalizeNode(b.nodes, b.roots[k])]

RECURSIVE BuildFrom(_, _, _, _)
BuildFrom(tokens, pos, resolved, b) ==
  IF pos >= Len(tokens) THEN [thrown |-> NoError, tree |-> FinalizeRoots(b)]
  ELSE Bind(BuildToken(b, tokens[pos + 1], resolved), LAMBDA r :
         IF r.thrown # NoError THEN [thrown |-> r.thrown, tree |-> << >>]
         ELSE BuildFrom(tokens, pos + 1, resolved, r.build))

buildTree(tokens, options) ==
  BuildFrom(tokens, 0, resolveOptions(options), EmptyBuild)

parseTreeBlock(input, options) ==
  Bind(tokenizeLines(input, options), LAMBDA t :
    IF t.thrown # NoError THEN [thrown |-> t.thrown, tree |-> << >>]
    ELSE buildTree(t.tokens, options))

(***************************************************************************)
(* renderText                                                              *)
(***************************************************************************)
RECURSIVE Concat(_)
Concat(seqs) == IF seqs = << >> THEN << >> ELSE Head(seqs) \o Concat(Tail(seqs))

\* `${indent}- ${label}` with indent = "  ".repeat(depth)
TextLine(node, depth) ==
  Repeat(SP, 2 * depth) \o <<DASH, SP>>
    \o (IF node.type = "folder" THEN Append(node.name, SLASH) ELSE node.name)

\* walk(node, depth): the lines pushed for node and its descendants.
RECURSIVE walk(_, _)
walk(node, depth) ==
  <<TextLine(node, depth)>>
    \o Concat([k \in 1..Len(node.children) |-> walk(node.children[k], depth + 1)])

RECURSIVE Join(_, _)
Join(lines, sep) ==
  IF lines = << >> THEN << >>
  ELSE IF Len(lines) = 1 THEN lines[1]
  ELSE lines[1] \o sep \o Join(Tail(lines), sep)

renderText(nodes) ==
  Join(Concat([k \in 1..Len(nodes) |-> walk(nodes[k], 0)]), <<LF>>)

(***************************************************************************)
(* renderHTML.  The output is a sequence whose elements are the characters  *)
(* of the labels, one by one, and the pieces of markup of the template      *)
(* literals, each as one element.                                           *)
(***************************************************************************)
AMP == "&"
LT == "<"
GT == ">"
QUOT == "\""
APOS == "'"

\* value.replaceAll(c, replacement) for a one-character pattern c.
RECURSIVE replaceAll(_, _, _)
replaceAll(value, c, replacement) ==
  IF value = << >> THEN << >>
  ELSE (IF Head(value) = c THEN replacement ELSE <<Head(value)>>)
         \o replaceAll(Tail(value), c, replacement)

\* Mutation: the ampersand is replaced last, after the entities were written.
escapeHtmlAmpersandLast(value) ==
  replaceAll(
    replaceAll(
      replaceAll(
        replaceAll(
          replaceAll(value, LT, <<"&", "l", "t", ";">>),
          GT, <<"&", "g", "t", ";">>),
        QUOT, <<"&", "q", "u", "o", "t", ";">>),
      APOS, <<"&", "#", "3", "9", ";">>),
    AMP, <<"&", "a", "m", "p", ";">>)

escapeHtml(value) ==
  replaceAll(
    replaceAll(
      replaceAll(
        replaceAll(
          replaceAll(value, AMP, <<"&", "a", "m", "p", ";">>),
          LT, <<"&", "l", "t", ";">>),
        GT, <<"&", "g", "t", ";">>),
      QUOT, <<"&", "q", "u", "o", "t", ";">>),
    APOS, <<"&", "#", "3", "9", ";">>)

\* The pieces of markup around a label.
LiOpen(type) ==
  <<"<li class=\"", "tree-node ", type, "\" data-type=\"", type, "\">">>
SpanOpen == "<span class=\"tree-label\">"
SpanClose == "</span>"

RECURSIVE renderNode(_)
renderNode(node) ==
  Bind(IF Len(node.children) > 0
         THEN <<"<ul>">>
                \o Concat([k \in 1..Len(node.children) |->
                             renderNode(node.children[k])])
                \o <<"</ul>">>
         ELSE << >>,
       LAMBDA children :
         IF node.type = "folder"
           THEN LiOpen(node.type) \o <<"<details open>", "<summary>", SpanOpen>>
                  \o escapeHtml(node.name)
                  \o <<SpanClose, "</summary>">> \o children
                  \o <<"</details>", "</li>">>
           ELSE LiOpen(node.type) \o <<SpanOpen>> \o escapeHtml(node.name)
                  \o <<SpanClose>> \o children \o <<"</li>">>)

\* options?.rootClass ?? "tree"; the option is a sequence of length 0 or 1.
renderHTML(nodes, htmlOptions) ==
  <<"<ul class=\"",
    IF htmlOptions.rootClass = << >> THEN "tree" ELSE htmlOptions.rootClass[1],
    "\">">>
    \o Concat([k \in 1..Len(nodes) |-> renderNode(nodes[k])])
    \o <<"</ul>">>

(***************************************************************************)
(* renderMermaid.  A line is a sequence of the characters of the label and  *)
(* of the pieces the template literals add; the number of an identifier is  *)
(* one element, its decimal form.                                           *)
(***************************************************************************)
\* value.replaceAll('"', String.raw`\"`)
escapeLabel(value) == replaceAll(value, QUOT, <<"\\", QUOT>>)

\* Mutation: the identifier is made from the counter before it is incremented.
MermaidIdBeforeIncrement(counter) == <<"n", ToString(counter - 1)>>

\* `n${counter}`
MermaidId(counter) == <<"n", ToString(counter)>>

\* The statements of walk before its loop over the children: st holds lines
\* and counter; parentId is << >> when the argument is left out.
MermaidVisit(node, parentId, st) ==
  Bind(MermaidId(st.counter + 1), LAMBDA id :
    Bind(Append(st.lines,
                id \o <<"[", QUOT>>
                  \o escapeLabel(IF node.type = "folder"
                                   THEN Append(node.name, SLASH) ELSE node.name)
                  \o <<QUOT, "]">>),
         LAMBDA lines1 :
           [lines |-> IF parentId # << >>
                        THEN Append(lines1, parentId \o <<" --> ">> \o id)
                        ELSE lines1,
            counter |-> st.counter + 1]))

RECURSIVE mermaidWalk(_, _, _)
RECURSIVE mermaidWalkChildren(_, _, _, _)
\* for (const child of node.children) walk(child, id), from the k-th child on.
mermaidWalkChildren(children, k, id, st) ==
  IF k > Len(children) THEN st
  ELSE mermaidWalkChildren(children, k + 1, id, mermaidWalk(children[k], id, st))

\* walk(node, parentId)
mermaidWalk(node, parentId, st) ==
  mermaidWalkChildren(node.children, 1, MermaidId(st.counter + 1),
                      MermaidVisit(node, parentId, st))

\* for (const node of nodes) walk(node), from the k-th root on.
RECURSIVE mermaidWalkRoots(_, _, _)
mermaidWalkRoots(nodes, k, st) ==
  IF k > Len(nodes) THEN st
  ELSE mermaidWalkRoots(nodes, k + 1, mermaidWalk(nodes[k], << >>, st))

renderMermaid(nodes) ==
  Join(mermaidWalkRoots(nodes, 1, [lines |-> << <<"graph TD">> >>, counter |-> 0]).lines,
       <<LF>>)

(***************************************************************************)
(* The parser of the VS Code preview (vscode/src/treeRenderer.ts), which    *)
(* has no options and never throws.  Its functions carry the prefix vscode. *)
(***************************************************************************)
\* rawLine.slice(0, idx).replaceAll("\t", "  ")
vscodeNormalizeIndentation(rawLine) ==
  Bind(LeadingRun(rawLine, 0), LAMBDA idx :
    IF ~includes(Slice(rawLine, 0, idx), TAB) THEN rawLine
    ELSE ReplaceAllTabs(Slice(rawLine, 0, idx), 2) \o SliceFrom(rawLine, idx))

\* The while loop of the preview's readIndentUnits, from (level, cursor) on.
RECURSIVE vscodeIndentLoop(_, _, _)
vscodeIndentLoop(line, level, cursor) ==
  IF cursor < Len(line) /\ At(line, cursor) = PIPE THEN
    Bind(readSpaces(line, cursor + 1), LAMBDA spaceCount :
      IF spaceCount > 0
        THEN vscodeIndentLoop(line, level + 1, cursor + 1 + spaceCount)
        ELSE [level |-> level, cursor |-> cursor + 1])
  ELSE IF cursor < Len(line) /\ At(line, cursor) = SP THEN
    Bind(readSpaces(line, cursor), LAMBDA spaceCount :
      vscodeIndentLoop(line, level + (spaceCount \div 2), cursor + spaceCount))
  ELSE [level |-> level, cursor |-> cursor]

vscodeReadIndentUnits(line) == vscodeIndentLoop(line, 0, 0)

vscodeReadBranchPrefix(line, cursor) ==
  IF At(line, cursor) # TEE /\ At(line, cursor) # ELBOW
    THEN [levelBoost |-> 0, cursor |-> cursor]
    ELSE Bind(SkipHorizontal(line, cursor + 1), LAMBDA next :
           [levelBoost |-> 1,
            cursor |-> IF At(line, next) = SP THEN next + 1 ELSE next])

vscodeParseIndentation(rawLine) ==
  Bind(vscodeNormalizeIndentation(rawLine), LAMBDA line :
    Bind(vscodeReadIndentUnits(line), LAMBDA ind :
      Bind(vscodeReadBranchPrefix(line, ind.cursor), LAMBDA branch :
        [level |-> ind.level + branch.levelBoost,
         content |-> Trim(SliceFrom(line, branch.cursor))])))

\* The body of the for loop of the preview's tokenizeLines behind the blank
\* test: the tokens with the token of the line pushed, if it has a name.
vscodePushToken(tokenList, level, content) ==
  Bind(IF endsWith(content, SLASH)
         THEN Trim(Slice(content, 0, Len(content) - 1))
         ELSE Trim(content),
       LAMBDA name :
         IF name = << >> THEN tokenList
         ELSE Append(tokenList, [name |-> name, level |-> level,
                                 explicitFolder |-> endsWith(content, SLASH)]))

RECURSIVE vscodeTokenizeFrom(_, _, _)
vscodeTokenizeFrom(lines, k, tokenList) ==
  IF k > Len(lines) THEN tokenList
  ELSE IF Trim(lines[k]) = << >> THEN vscodeTokenizeFrom(lines, k + 1, tokenList)
  ELSE Bind(vscodeParseIndentation(lines[k]), LAMBDA ind :
         vscodeTokenizeFrom(lines, k + 1,
                            vscodePushToken(tokenList, ind.level, ind.content)))

vscodeTokenizeLines(text) == vscodeTokenizeFrom(SplitLines(text), 1, << >>)

\* One iteration of the for loop of the preview's buildTree; explicitFolders
\* is the Set of the names of the tokens that carried the marker.
vscodeBuildToken(b, token) ==
  LET level == IF token.level > Len(b.stack) THEN Len(b.stack) ELSE token.level
      stack1 == PopTo(b.stack, level)
      id == Len(b.nodes) + 1
      node == [name |-> token.name, children |-> << >>]
  IN  [nodes |-> IF stack1 = << >> THEN Append(b.nodes, node)
                 ELSE Append([b.nodes EXCEPT ![stackTop(stack1)].children =
                                Append(@, id)], node),
       roots |-> IF stack1 = << >> THEN Append(b.roots, id) ELSE b.roots,
       stack |-> Append(stack1, id),
       explicitFolders |-> IF token.explicitFolder
                             THEN b.explicitFolders \cup {token.name}
                             ELSE b.explicitFolders]

RECURSIVE vscodeBuildFrom(_, _, _)
vscodeBuildFrom(tokenList, k, b) ==
  IF k > Len(tokenList) THEN b
  ELSE vscodeBuildFrom(tokenList, k + 1, vscodeBuildToken(b, tokenList[k]))

\* finalize(node) of the preview's buildTree.
RECURSIVE vscodeFinalize(_, _)
vscodeFinalize(b, id) ==
  Bind([k \in 1..Len(b.nodes[id].children) |->
          vscodeFinalize(b, b.nodes[id].children[k])],
       LAMBDA children :
         [name |-> b.nodes[id].name,
          type |-> IF Len(children) > 0 \/ b.nodes[id].name \in b.explicitFolders
                     THEN "folder"
                   ELSE IF includes(b.nodes[id].name, DOT)
                             \/ isAllCaps(b.nodes[id].name) THEN "file"
                   ELSE "folder",
          children |-> children])

vscodeBuildTree(tokenList) ==
  Bind(vscodeBuildFrom(tokenList, 1,
                       [nodes |-> << >>, roots |-> << >>, stack |-> << >>,
                        explicitFolders |-> {}]),
       LAMBDA b : [k \in 1..Len(b.roots) |-> vscodeFinalize(b, b.roots[k])])

vscodeParseTreeBlock(text) == vscodeBuildTree(vscodeTokenizeLines(text))

(***************************************************************************)
(* The Markdown processor of the CLI: replaceTreeBlocks.  A Markdown text   *)
(* is a sequence of characters; the markup of renderHTML is made of single  *)
(* elements of it.  The default theme is a text of its own, with its line   *)
(* ends, so that splitting a document that holds it splits the theme too.   *)
(***************************************************************************)
\* The backtick (U+0060).
BT == "U+0060"

\* The attribute data-tree-markdown with the value true, in double quotes.
cssMarker ==
  <<"d", "a", "t", "a", DASH, "t", "r", "e", "e", DASH,
    "m", "a", "r", "k", "d", "o", "w", "n", "=", QUOT, "t", "r", "u", "e", QUOT>>

\* The string the module imports as defaultTreeTheme: a style sheet of
\* several lines.  The module that exports it is not among the sources, so
\* its text is one of ThemePool, fixed when the program is loaded: rules
\* separated by a line feed, or by a carriage return and a line feed.  It
\* is empty in the programs that do not import it.
VARIABLE defaultTreeTheme

ThemePool ==
  { <<".", "a", "{", "}", LF, ".", "b", "{", "}">>,
    <<".", "a", "{", "}", CR, LF, ".", "b", "{", "}">> }

\* The style element: opening tag with the marker, theme, closing tag,
\* each on its own line.
cssStyleTag ==
  <<"<style ">> \o cssMarker \o <<">", LF>> \o defaultTreeTheme
    \o <<LF, "</style>">>

\* The link element to tree.css, carrying the marker attribute.
cssLinkTag ==
  <<"<link rel=\"stylesheet\" href=\"tree.css\" ">> \o cssMarker \o <<" />">>

\* What \s and \w of a regular expression match.
IsRegexSpace(c) == c \in WhiteSpaceChars
IsWordChar(c) ==
  \/ IsLetter(c)
  \/ c \in {"0", "1", "2", "3", "4", "5", "6", "7", "8", "9", "_"}

\* Length of the run of backticks a line starts with: what the group of
\* three or more backticks takes, as the character after the run is never a
\* backtick.
RECURSIVE BacktickRun(_)
BacktickRun(line) ==
  IF line # << >> /\ Head(line) = BT THEN 1 + BacktickRun(Tail(line)) ELSE 0

RECURSIVE SkipRegexSpace(_)
SkipRegexSpace(s) ==
  IF s # << >> /\ IsRegexSpace(Head(s)) THEN SkipRegexSpace(Tail(s)) ELSE s

\* matchFence: fencePattern on the line (three or more backticks, white
\* space, the word tree, a word boundary, anything); the length of the group,
\* 0 for null.  The dot matches no line terminator.
matchFence(line) ==
  Bind(BacktickRun(line), LAMBDA n :
    Bind(SkipRegexSpace(SliceFrom(line, n)), LAMBDA rest :
      IF /\ n >= 3
         /\ Len(rest) >= 4
         /\ SubSeq(rest, 1, 4) = <<"t", "r", "e", "e">>
         /\ (Len(rest) > 4 => ~IsWordChar(rest[5]))
         /\ \A i \in 5..Len(rest) : rest[i] \notin LineTerminators
        THEN n ELSE 0))

\* closingPattern on the candidate (three or more backticks, white space,
\* end); the length of the group, 0 when there is no match.
matchClosing(candidate) ==
  Bind(BacktickRun(candidate), LAMBDA n :
    IF n >= 3 /\ SkipRegexSpace(SliceFrom(candidate, n)) = << >> THEN n ELSE 0)

\* closingFence && closingFence.length === fence.length
IsClosingFence(candidate, fence) ==
  matchClosing(candidate) > 0 /\ matchClosing(candidate) = fence

\* readFenceContent: the lines shifted off remaining up to the closing fence;
\* rest is what remaining still holds on return.
RECURSIVE readFenceFrom(_, _, _)
readFenceFrom(remaining, fence, contentLines) ==
  IF remaining = << >>
    THEN [content |-> Join(contentLines, <<LF>>), closed |-> FALSE,
          rest |-> << >>]
  ELSE IF IsClosingFence(Head(remaining), fence)
    THEN [content |-> Join(contentLines, <<LF>>), closed |-> TRUE,
          rest |-> Tail(remaining)]
  ELSE readFenceFrom(Tail(remaining), fence, Append(contentLines, Head(remaining)))

readFenceContent(remaining, fence) == readFenceFrom(remaining, fence, << >>)

\* renderReplacement: the array of strings pushed for one block.
\* parseTreeBlock is called without options and its forest is rendered.
renderReplacement(rawTree, cliOptions) ==
  Bind(parseTreeBlock(rawTree, [mode |-> << >>, tabWidth |-> << >>,
                                indentWidth |-> << >>]).tree,
       LAMBDA tree :
         IF cliOptions.text
           THEN << <<BT, BT, BT, "t", "e", "x", "t">>, renderText(tree),
                   <<BT, BT, BT>> >>
           ELSE << renderHTML(tree, [rootClass |-> << >>]) >>)

\* markdown.includes(search) for a string search.
includesString(markdown, search) ==
  \E i \in 0..(Len(markdown) - Len(search)) :
    SubSeq(markdown, i + 1, i + Len(search)) = search

shouldInjectCss(markdown, cliOptions) ==
  IF cliOptions.text \/ cliOptions.htmlOnly THEN FALSE
  ELSE ~includesString(markdown, cssMarker)

\* lines.findIndex((line, index) => index > 0 && line === "---"), from 0.
RECURSIVE findClosingIndex(_, _)
findClosingIndex(lines, i) ==
  IF i >= Len(lines) THEN -1
  ELSE IF i > 0 /\ lines[i + 1] = <<DASH, DASH, DASH>> THEN i
  ELSE findClosingIndex(lines, i + 1)

\* lines.splice(at, 0, cssStyleTag, cssLinkTag, "")
spliceCss(lines, at) ==
  SubSeq(lines, 1, at) \o <<cssStyleTag, cssLinkTag, << >> >>
    \o SubSeq(lines, at + 1, Len(lines))

injectCss(markdown) ==
  Bind(SplitLines(markdown), LAMBDA lines :
    IF lines[1] = <<DASH, DASH, DASH>> /\ findClosingIndex(lines, 0) # -1
      THEN Join(spliceCss(lines, findClosingIndex(lines, 0) + 1), <<LF>>)
      ELSE Join(spliceCss(lines, 0), <<LF>>))

NoCliError == [name |-> "", message |-> ""]
\* new Error of the message Unclosed, three backticks, tree block.
UnclosedError ==
  [name |-> "Error", message |-> <<"Unclosed ", BT, BT, BT, "tree block">>]

\* The while loop of replaceTreeBlocks: output is the array at its end.
RECURSIVE replaceLoop(_, _, _)
replaceLoop(remaining, output, cliOptions) ==
  IF remaining = << >> THEN [thrown |-> NoCliError, output |-> output]
  ELSE
    Bind(matchFence(Head(remaining)), LAMBDA fence :
      IF fence = 0
        THEN replaceLoop(Tail(remaining), Append(output, Head(remaining)),
                         cliOptions)
        ELSE
          Bind(readFenceContent(Tail(remaining), fence), LAMBDA content :
            IF ~content.closed
              THEN [thrown |-> UnclosedError, output |-> output]
              ELSE replaceLoop(content.rest,
                               output \o renderReplacement(content.content,
                                                           cliOptions),
                               cliOptions)))

\* replaceTreeBlocks(markdown, options): what is thrown, the output array at
\* the end of the loop and the string returned (empty when it threw).
replaceTreeBlocks(markdown, cliOptions) ==
  Bind(replaceLoop(SplitLines(markdown), << >>, cliOptions), LAMBDA r :
    IF r.thrown # NoCliError
      THEN [thrown |-> r.thrown, output |-> r.output, returned |-> << >>]
      ELSE [thrown |-> NoCliError,
            output |-> r.output,
            returned |-> IF shouldInjectCss(markdown, cliOptions)
                           THEN injectCss(Join(r.output, <<LF>>))
                           ELSE Join(r.output, <<LF>>)])

(***************************************************************************)
(* The calls as a state machine.                                           *)
(*   Spec: parseTreeBlock(input, options) run line by line and token by    *)
(*   token, then renderText on the returned forest and parseTreeBlock on   *)
(*   the rendered text.                                                    *)
(*   SpecIndent: one call of parseIndentation on one raw line.             *)
(***************************************************************************)
VARIABLES
  input,     \* the text (Spec) or the raw line (SpecIndent) passed in
  options,   \* the ParseOptions passed in
  pc,        \* where the call is
  index,     \* forEach index of tokenizeLines (line number - 1)
  tokens,    \* tokens pushed so far
  build,     \* roots, stack and working nodes of buildTree
  pos,       \* number of tokens buildTree has consumed
  result,    \* the forest parseTreeBlock returned
  thrown,    \* the error parseTreeBlock threw, NoError if none
  text,      \* renderText(result)
  reparsed,  \* parseTreeBlock(text)
  indent,    \* what parseIndentation returned or threw (SpecIndent)
  preview    \* the forest the preview's parseTreeBlock returned (SpecPreview)

vars == <<input, options, pc, index, tokens, build, pos, result, thrown, text,
          reparsed, indent, preview, defaultTreeTheme>>

MaxLines == 3
MaxLineLen == 5

NoOptions == [mode |-> << >>, tabWidth |-> << >>, indentWidth |-> << >>]
NoIndent == [thrown |-> NoError, level |-> 0, content |-> << >>]
NoParse == [thrown |-> NoError, tree |-> << >>]

\* Lines the input texts of Spec are made of.
LinePool ==
  { <<"a", DOT, "b", SLASH>>,
    <<SP, SP, "b", DOT, "c", CR>>,
    <<SP, SP, SP, SP, "A">>,
    <<TEE, HBAR, SP, "d">>,
    <<PIPE, SP, SP, ELBOW, HBAR, SP, "E", SLASH>>,
    <<TAB, SP, SP, "f">>,
    <<SP, TAB>>,
    <<TEE, HBAR, SP, SLASH>>,
    <<PIPE, "g">>,
    <<SP, SP, SP, "h">>,
    <<ELBOW, DASH>>,
    <<"c", SLASH, SLASH>> }

RECURSIVE LineSeqs(_)
LineSeqs(n) ==
  IF n = 0 THEN { << >> }
  ELSE LET shorter == LineSeqs(n - 1)
       IN  shorter \cup { Append(ls, l) : ls \in { x \in shorter : Len(x) = n - 1 },
                                          l \in LinePool }

Texts == { Join(ls, <<LF>>) : ls \in LineSeqs(MaxLines) \ { << >> } }

OptionsPool ==
  { NoOptions,
    [mode |-> <<"strict">>, tabWidth |-> << >>, indentWidth |-> << >>],
    [mode |-> <<"strict">>, tabWidth |-> <<1>>, indentWidth |-> <<3>>] }

Init ==
  /\ defaultTreeTheme = << >>
  /\ input \in Texts
  /\ options \in OptionsPool
  /\ pc = "tokenize"
  /\ index = 0
  /\ tokens = << >>
  /\ build = EmptyBuild
  /\ pos = 0
  /\ result = << >>
  /\ thrown = NoError
  /\ text = << >>
  /\ reparsed = NoParse
  /\ indent = NoIndent
  /\ preview = << >>

\* Mutation: a token is numbered by its position among the tokens pushed, so
\* that a skipped line renumbers the lines after it.
TokenizeStepRenumbering ==
  /\ pc = "tokenize"
  /\ index < Len(SplitLines(input))
  /\ Bind(TokenizeLine(SplitLines(input)[index + 1], index,
                       resolveOptions(options)), LAMBDA r :
       IF r.thrown # NoError
         THEN /\ thrown' = r.thrown
              /\ pc' = "thrown"
              /\ UNCHANGED <<index, tokens>>
         ELSE /\ tokens' = IF r.skip THEN tokens
                           ELSE Append(tokens,
                                       [r.token EXCEPT !.line = Len(tokens) + 1])
              /\ index' = index + 1
              /\ UNCHANGED <<thrown, pc>>)
  /\ UNCHANGED <<input, options, build, pos, result, text, reparsed, indent, preview,
                 defaultTreeTheme>>

\* tokenizeLines: the forEach callback on the next line.
TokenizeStep ==
  /\ pc = "tokenize"
  /\ index < Len(SplitLines(input))
  /\ Bind(TokenizeLine(SplitLines(input)[index + 1], index,
                       resolveOptions(options)), LAMBDA r :
       IF r.thrown # NoError
         THEN /\ thrown' = r.thrown
              /\ pc' = "thrown"
              /\ UNCHANGED <<index, tokens>>
         ELSE /\ tokens' = IF r.skip THEN tokens ELSE Append(tokens, r.token)
              /\ index' = index + 1
              /\ UNCHANGED <<thrown, pc>>)
  /\ UNCHANGED <<input, options, build, pos, result, text, reparsed, indent, preview,
                 defaultTreeTheme>>

\* Mutation: the tree is built from the tokens of the first lines while later
\* lines have not been tokenized.
TokenizeReturnEarly ==
  /\ pc = "tokenize"
  /\ index >= 1
  /\ pc' = "build"
  /\ build' = EmptyBuild
  /\ pos' = 0
  /\ UNCHANGED <<input, options, index, tokens, result, thrown, text, reparsed,
                 indent, preview, defaultTreeTheme>>

\* tokenizeLines returns; buildTree starts with empty roots and stack.
TokenizeReturn ==
  /\ pc = "tokenize"
  /\ index = Len(SplitLines(input))
  /\ pc' = "build"
  /\ build' = EmptyBuild
  /\ pos' = 0
  /\ UNCHANGED <<input, options, index, tokens, result, thrown, text, reparsed,
                 indent, preview, defaultTreeTheme>>

\* buildTree: one iteration of the loop over the tokens.  When the pop loop
\* does not end the call stays in it, with the stack emptied, for ever.
BuildStep ==
  /\ pc = "build"
  /\ pos < Len(tokens)
  /\ Bind(BuildToken(build, tokens[pos + 1], resolveOptions(options)), LAMBDA r :
       IF r.thrown = NoReturn
         THEN /\ pc' = "popping"
              /\ build' = [build EXCEPT !.stack = << >>]
              /\ UNCHANGED <<pos, thrown>>
       ELSE IF r.thrown # NoError
         THEN /\ thrown' = r.thrown
              /\ pc' = "thrown"
              /\ UNCHANGED <<build, pos>>
         ELSE /\ build' = r.build
              /\ pos' = pos + 1
              /\ UNCHANGED <<thrown, pc>>)
  /\ UNCHANGED <<input, options, index, tokens, result, text, reparsed, indent, preview,
                 defaultTreeTheme>>

\* buildTree returns roots.map(finalizeNode); parseTreeBlock returns it.
BuildReturn ==
  /\ pc = "build"
  /\ pos = Len(tokens)
  /\ result' = FinalizeRoots(build)
  /\ pc' = "returned"
  /\ UNCHANGED <<input, options, index, tokens, build, pos, thrown, text,
                 reparsed, indent, preview, defaultTreeTheme>>

\* renderText on the returned forest.
RenderText ==
  /\ pc = "returned"
  /\ text' = renderText(result)
  /\ pc' = "rendered"
  /\ UNCHANGED <<input, options, index, tokens, build, pos, result, thrown,
                 reparsed, indent, preview, defaultTreeTheme>>

\* renderMermaid on the returned forest.
RenderMermaid ==
  /\ pc = "returned"
  /\ text' = renderMermaid(result)
  /\ pc' = "mermaid"
  /\ UNCHANGED <<input, options, index, tokens, build, pos, result, thrown,
                 reparsed, indent, preview, defaultTreeTheme>>

\* parseTreeBlock on the rendered text, default options.
Reparse ==
  /\ pc = "rendered"
  /\ reparsed' = parseTreeBlock(text, NoOptions)
  /\ pc' = "reparsed"
  /\ UNCHANGED <<input, options, index, tokens, build, pos, result, thrown,
                 text, indent, preview, defaultTreeTheme>>

Next ==
  \/ TokenizeStep
  \/ TokenizeReturn
  \/ BuildStep
  \/ BuildReturn
  \/ RenderText
  \/ RenderMermaid
  \/ Reparse

Spec == Init /\ [][Next]_vars

(***************************************************************************)
(* SpecIndent: parseIndentation on every line over IndentChars of at most   *)
(* MaxLineLen characters.                                                   *)
(***************************************************************************)
IndentChars == {SP, TAB, PIPE, TEE, HBAR, "a"}

RECURSIVE StringsUpTo(_)
StringsUpTo(n) ==
  IF n = 0 THEN { << >> }
  ELSE LET shorter == StringsUpTo(n - 1)
       IN  shorter \cup { Append(s, c) : s \in { x \in shorter : Len(x) = n - 1 },
                                         c \in IndentChars }

IndentOptions ==
  { [mode |-> <<m>>, tabWidth |-> <<t>>, indentWidth |-> <<w>>] :
      m \in {"strict", "tolerant"}, t \in {1, 2}, w \in {2, 3} }

InitIndent ==
  /\ defaultTreeTheme = << >>
  /\ input \in StringsUpTo(MaxLineLen)
  /\ options \in IndentOptions
  /\ index \in {0, 1}
  /\ pc = "parseIndentation"
  /\ tokens = << >>
  /\ build = EmptyBuild
  /\ pos = 0
  /\ result = << >>
  /\ thrown = NoError
  /\ text = << >>
  /\ reparsed = NoParse
  /\ indent = NoIndent
  /\ preview = << >>

ParseIndentation ==
  /\ pc = "parseIndentation"
  /\ indent' = parseIndentation(input, resolveOptions(options), index + 1)
  /\ pc' = IF indent'.thrown # NoError THEN "thrown" ELSE "returned"
  /\ UNCHANGED <<input, options, index, tokens, build, pos, result, thrown,
                 text, reparsed, preview, defaultTreeTheme>>

NextIndent == ParseIndentation

SpecIndent == InitIndent /\ [][NextIndent]_vars

(***************************************************************************)
(* SpecClassify: buildTree on one token, alone or followed by a child, for  *)
(* every trimmed non-empty name over NameChars of at most MaxNameLen        *)
(* characters.                                                              *)
(***************************************************************************)
MaxNameLen == 4

NameChars == {DOT, "a", "B", SP, LPAREN, "1"}

RECURSIVE NamesUpTo(_)
NamesUpTo(n) ==
  IF n = 0 THEN { << >> }
  ELSE LET shorter == NamesUpTo(n - 1)
       IN  shorter \cup { Append(s, c) : s \in { x \in shorter : Len(x) = n - 1 },
                                         c \in NameChars }

\* The names a LineToken can carry: trimmed and not empty.
TokenNames == { n \in NamesUpTo(MaxNameLen) : n # << >> /\ Trim(n) = n }

ChildToken == [name |-> <<"a">>, level |-> 1, explicitFolder |-> FALSE, line |-> 2]

InitClassify ==
  /\ defaultTreeTheme = << >>
  /\ \E name \in TokenNames, marker \in BOOLEAN, withChild \in BOOLEAN :
       tokens = <<[name |-> name, level |-> 0, explicitFolder |-> marker,
                   line |-> 1]>>
                  \o (IF withChild THEN <<ChildToken>> ELSE << >>)
  /\ options \in OptionsPool
  /\ input = << >>
  /\ pc = "buildTree"
  /\ index = 0
  /\ build = EmptyBuild
  /\ pos = 0
  /\ result = << >>
  /\ thrown = NoError
  /\ text = << >>
  /\ reparsed = NoParse
  /\ indent = NoIndent
  /\ preview = << >>

\* buildTree(tokens, options) called on its own.
BuildTreeCall ==
  /\ pc = "buildTree"
  /\ Bind(buildTree(tokens, options), LAMBDA r :
       /\ result' = r.tree
       /\ thrown' = r.thrown
       /\ pc' = IF r.thrown # NoError THEN "thrown" ELSE "returned")
  /\ UNCHANGED <<input, options, index, tokens, build, pos, text, reparsed,
                 indent, preview, defaultTreeTheme>>

NextClassify == BuildTreeCall

SpecClassify == InitClassify /\ [][NextClassify]_vars

(***************************************************************************)
(* SpecPreview: the same text given to the core parseTreeBlock without      *)
(* options and to the parseTreeBlock of the VS Code preview.                *)
(***************************************************************************)
InitPreview ==
  /\ defaultTreeTheme = << >>
  /\ input \in Texts
  /\ options = NoOptions
  /\ pc = "core"
  /\ index = 0
  /\ tokens = << >>
  /\ build = EmptyBuild
  /\ pos = 0
  /\ result = << >>
  /\ thrown = NoError
  /\ text = << >>
  /\ reparsed = NoParse
  /\ indent = NoIndent
  /\ preview = << >>

\* parseTreeBlock(input) of the core.
CoreParse ==
  /\ pc = "core"
  /\ Bind(parseTreeBlock(input, options), LAMBDA r :
       /\ result' = r.tree
       /\ thrown' = r.thrown)
  /\ pc' = "preview"
  /\ UNCHANGED <<input, options, index, tokens, build, pos, text, reparsed,
                 indent, preview, defaultTreeTheme>>

\* parseTreeBlock(token.content) of the preview's fence rule.
PreviewParse ==
  /\ pc = "preview"
  /\ preview' = vscodeParseTreeBlock(input)
  /\ pc' = "compared"
  /\ UNCHANGED <<input, options, index, tokens, build, pos, result, thrown,
                 text, reparsed, indent, defaultTreeTheme>>

NextPreview ==
  \/ CoreParse
  \/ PreviewParse

SpecPreview == InitPreview /\ [][NextPreview]_vars

(***************************************************************************)
(* SpecHtml: renderHTML on a forest of one node, a file or a folder with or *)
(* without a child, for every non-empty name over HtmlChars of at most      *)
(* MaxLabelLen characters.                                                  *)
(***************************************************************************)
MaxLabelLen == 3

HtmlChars == {AMP, LT, GT, QUOT, APOS, "a", ";"}

RECURSIVE LabelsUpTo(_)
LabelsUpTo(n) ==
  IF n = 0 THEN { << >> }
  ELSE LET shorter == LabelsUpTo(n - 1)
       IN  shorter \cup { Append(s, c) : s \in { x \in shorter : Len(x) = n - 1 },
                                         c \in HtmlChars }

ChildNode == [name |-> <<LT, "a", GT>>, type |-> "file", children |-> << >>]

HtmlOptionsPool == { [rootClass |-> << >>], [rootClass |-> <<"docs">>] }

InitHtml ==
  /\ defaultTreeTheme = << >>
  /\ \E name \in LabelsUpTo(MaxLabelLen) \ { << >> },
        shape \in {"file", "folder", "parent"} :
       result = <<[name |-> name,
                   type |-> IF shape = "file" THEN "file" ELSE "folder",
                   children |-> IF shape = "parent" THEN <<ChildNode>> ELSE << >>]>>
  /\ options \in HtmlOptionsPool
  /\ input = << >>
  /\ pc = "renderHTML"
  /\ index = 0
  /\ tokens = << >>
  /\ build = EmptyBuild
  /\ pos = 0
  /\ thrown = NoError
  /\ text = << >>
  /\ reparsed = NoParse
  /\ indent = NoIndent
  /\ preview = << >>

RenderHTML ==
  /\ pc = "renderHTML"
  /\ text' = renderHTML(result, options)
  /\ pc' = "rendered"
  /\ UNCHANGED <<input, options, index, tokens, build, pos, result, thrown,
                 reparsed, indent, preview, defaultTreeTheme>>

NextHtml == RenderHTML

SpecHtml == InitHtml /\ [][NextHtml]_vars

(***************************************************************************)
(* SpecCli: replaceTreeBlocks on a Markdown text of at most MaxMdLines      *)
(* lines of MdLinePool under each combination of the two options, then      *)
(* replaceTreeBlocks again on the string it returned.  Here result holds    *)
(* the output array at the end of the loop, text the string returned and    *)
(* reparsed the outcome of the second call.                                 *)
(***************************************************************************)
MaxMdLines == 3

MdLinePool ==
  { <<BT, BT, BT, "t", "r", "e", "e">>,
    <<BT, BT, BT>>,
    <<BT, BT, BT, BT, "t", "r", "e", "e">>,
    <<BT, BT, BT, BT, FF>>,
    <<BT, BT, BT, "t", "r", "e", "e", DASH, "v", "i", "e", "w">>,
    <<BT, BT, BT, SP, "t", "r", "e", "e", SP, "x">>,
    <<BT, BT, BT, "t", "r", "e", "e", "s">>,
    <<DASH, DASH, DASH>>,
    <<"a">>,
    cssMarker }

RECURSIVE MdLineSeqs(_)
MdLineSeqs(n) ==
  IF n = 0 THEN { << >> }
  ELSE LET shorter == MdLineSeqs(n - 1)
       IN  shorter \cup { Append(ls, l) : ls \in { x \in shorter : Len(x) = n - 1 },
                                          l \in MdLinePool }

Markdowns == { Join(ls, <<LF>>) : ls \in MdLineSeqs(MaxMdLines) \ { << >> } }

CliOptionsPool == [text : BOOLEAN, htmlOnly : BOOLEAN]

NoCall == [thrown |-> NoCliError, output |-> << >>, returned |-> << >>]

InitCli ==
  /\ defaultTreeTheme \in ThemePool
  /\ input \in Markdowns
  /\ options \in CliOptionsPool
  /\ pc = "replaceTreeBlocks"
  /\ index = 0
  /\ tokens = << >>
  /\ build = EmptyBuild
  /\ pos = 0
  /\ result = << >>
  /\ thrown = NoCliError
  /\ text = << >>
  /\ reparsed = NoCall
  /\ indent = NoIndent
  /\ preview = << >>

\* replaceTreeBlocks(input, options)
ReplaceTreeBlocks ==
  /\ pc = "replaceTreeBlocks"
  /\ LET r == replaceTreeBlocks(input, options)
     IN  /\ result' = r.output
         /\ thrown' = r.thrown
         /\ text' = r.returned
         /\ pc' = IF r.thrown # NoCliError THEN "threw" ELSE "replaced"
  /\ UNCHANGED <<input, options, index, tokens, build, pos, reparsed, indent,
                 preview, defaultTreeTheme>>

\* replaceTreeBlocks(text, options), text being what the first call returned
ReplaceAgain ==
  /\ pc = "replaced"
  /\ reparsed' = replaceTreeBlocks(text, options)
  /\ pc' = "again"
  /\ UNCHANGED <<input, options, index, tokens, build, pos, result, thrown,
                 text, indent, preview, defaultTreeTheme>>

NextCli ==
  \/ ReplaceTreeBlocks
  \/ ReplaceAgain

SpecCli == InitCli /\ [][NextCli]_vars

(***************************************************************************)
(* Vocabulary of the properties.  These definitions restate the rules of   *)
(* the specification on their own terms; they do not use the parser.       *)
(***************************************************************************)
Mode == resolveOptions(options).mode
TabWidthOpt == resolveOptions(options).tabWidth
IndentWidthOpt == resolveOptions(options).indentWidth
Lines == SplitLines(input)

\* parseTreeBlock has returned a forest (and result holds it).
Returned == pc \in {"returned", "rendered", "reparsed", "mermaid"}

\* parseTreeBlock is still inside one of its loops.
Running == pc \in {"tokenize", "build"}

\* The loop the call is in can take its next step or end: the call is not stuck.
CanStep ==
  \/ pc = "tokenize" /\ index \in 0..Len(Lines)
  \/ pc = "build" /\ pos \in 0..Len(tokens)

Blank(raw) == \A i \in 1..Len(raw) : IsWhitespace(raw[i])

\* Number of leading characters of s that belong to set.
RunLen(s, set) ==
  CHOOSE n \in 0..Len(s) :
    /\ \A i \in 1..n : s[i] \in set
    /\ n = Len(s) \/ s[n + 1] \notin set

\* The leading white space run holds both a tab and a space.
MixedIndent(raw) ==
  /\ \E i \in 1..RunLen(raw, {SP, TAB}) : raw[i] = TAB
  /\ \E i \in 1..RunLen(raw, {SP, TAB}) : raw[i] = SP

\* The line with every tab of its leading run written as tabWidth spaces.
Expanded(raw, tabWidth) ==
  LET n == RunLen(raw, {SP, TAB})
      tabs == Cardinality({i \in 1..n : raw[i] = TAB})
  IN  [i \in 1..(n - tabs + tabs * tabWidth) |-> SP] \o SubSeq(raw, n + 1, Len(raw))

\* The indentation prefix: the leading run of connectors and spaces.
PrefixLen(line) == RunLen(line, {PIPE, SP})
PipeCount(line) == Cardinality({i \in 1..PrefixLen(line) : line[i] = PIPE})
LeadingSpaces(line) == RunLen(line, {SP})
HasBranch(line) ==
  PrefixLen(line) < Len(line) /\ line[PrefixLen(line) + 1] \in {TEE, ELBOW}

\* The level the specification gives a tab-free line.
SpecLevel(line, indentWidth) ==
  PipeCount(line) + (LeadingSpaces(line) \div indentWidth)
    + (IF HasBranch(line) THEN 1 ELSE 0)

\* A connector of the prefix with no space after it.
BadConnectorAt(line, i) ==
  /\ i \in 1..PrefixLen(line)
  /\ line[i] = PIPE
  /\ i = Len(line) \/ line[i + 1] # SP
BadConnector(line) == \E i \in 1..Len(line) : BadConnectorAt(line, i)

Misaligned(line, indentWidth) == LeadingSpaces(line) % indentWidth # 0

\* What is left of the line after the prefix, the branch glyph, its run of
\* horizontal lines and one space, trimmed.
SpecContent(line) ==
  LET afterPrefix == SubSeq(line, PrefixLen(line) + 1, Len(line))
      afterGlyph == IF HasBranch(line) THEN Tail(afterPrefix) ELSE afterPrefix
      afterRun == IF HasBranch(line)
                    THEN SubSeq(afterGlyph, RunLen(afterGlyph, {HBAR, DASH}) + 1,
                                Len(afterGlyph))
                    ELSE afterGlyph
      afterSpace == IF HasBranch(line) /\ afterRun # << >> /\ Head(afterRun) = SP
                      THEN Tail(afterRun) ELSE afterRun
  IN  Trim(afterSpace)

SpecName(line) ==
  LET content == SpecContent(line)
  IN  IF content # << >> /\ content[Len(content)] = SLASH
        THEN Trim(SubSeq(content, 1, Len(content) - 1))
        ELSE content

\* The rule, if any, that line number n of the input violates, by the name of
\* its diagnostic.
Violates(category, n) ==
  LET raw == Lines[n]
      line == Expanded(raw, TabWidthOpt)
      earlier == {j \in 1..(n - 1) : ~Blank(Lines[j])}
      prev == CHOOSE j \in earlier : \A k \in earlier : k <= j
  IN  /\ ~Blank(raw)
      /\ CASE category = "Mixed tabs and spaces in indentation" -> MixedIndent(raw)
           [] category = "Invalid tree prefix after vertical connector" ->
                BadConnector(line)
           [] category = "Indentation not aligned to indentWidth" ->
                Misaligned(line, IndentWidthOpt)
           [] category = "Empty tree line" -> SpecContent(line) = << >>
           [] category = "Invalid empty node name" ->
                SpecContent(line) # << >> /\ SpecName(line) = << >>
           [] category = "Non-monotonic indentation" ->
                SpecLevel(line, IndentWidthOpt) >
                  (IF earlier = {} THEN 0
                   ELSE SpecLevel(Expanded(Lines[prev], TabWidthOpt),
                                  IndentWidthOpt) + 1)
           [] OTHER -> FALSE

Categories ==
  { "Mixed tabs and spaces in indentation",
    "Invalid tree prefix after vertical connector",
    "Indentation not aligned to indentWidth",
    "Empty tree line",
    "Invalid empty node name",
    "Non-monotonic indentation" }

InputViolatesRule ==
  \E n \in 1..Len(Lines) : \E category \in Categories : Violates(category, n)

\* The nodes of a forest in depth-first pre-order, each with its depth.
RECURSIVE PreOrder(_, _)
PreOrder(node, depth) ==
  <<[name |-> node.name, type |-> node.type, depth |-> depth,
     kids |-> Len(node.children)]>>
    \o Concat([k \in 1..Len(node.children) |-> PreOrder(node.children[k], depth + 1)])

Flatten(forest) == Concat([k \in 1..Len(forest) |-> PreOrder(forest[k], 0)])

(***************************************************************************)
(* Properties                                                              *)
(***************************************************************************)

\* C1: every node of a returned forest (of the parse and of the re-parse of
\* its rendering) that has one or more children has type folder.
C1_ChildrenImplyFolder ==
  /\ Returned =>
       \A i \in 1..Len(Flatten(result)) :
         Flatten(result)[i].kids > 0 => Flatten(result)[i].type = "folder"
  /\ pc = "reparsed" =>
       \A i \in 1..Len(Flatten(reparsed.tree)) :
         Flatten(reparsed.tree)[i].kids > 0
           => Flatten(reparsed.tree)[i].type = "folder"

\* A returned forest holds a parent whose name alone (a dot, no marker) would
\* have made it a file.
C1_Witness ==
  /\ pc = "returned"
  /\ \E i \in 1..Len(tokens) :
       /\ Flatten(result)[i].kids > 0
       /\ ~tokens[i].explicitFolder
       /\ includes(tokens[i].name, DOT)
       /\ Flatten(result)[i].type = "folder"

\* C2: the node made from a token with explicitFolder = TRUE has type folder,
\* whatever its name and even with no children.
C2_ExplicitMarkerIsFolder ==
  Returned =>
    /\ Len(Flatten(result)) = Len(tokens)
    /\ \A i \in 1..Len(tokens) :
         tokens[i].explicitFolder
           => /\ Flatten(result)[i].name = tokens[i].name
              /\ Flatten(result)[i].type = "folder"

\* A childless node with an explicit marker whose name has a dot, and another
\* whose name is all upper case, both folders.
C2_Witness ==
  /\ pc = "returned"
  /\ \E i, j \in 1..Len(tokens) :
       /\ tokens[i].explicitFolder /\ tokens[j].explicitFolder
       /\ Flatten(result)[i].kids = 0 /\ Flatten(result)[j].kids = 0
       /\ includes(tokens[i].name, DOT)
       /\ isAllCaps(tokens[j].name)
       /\ Flatten(result)[i].type = "folder"
       /\ Flatten(result)[j].type = "folder"

\* C3: an input with a non-blank line whose leading white space holds both a
\* tab and a space makes strict mode throw a TreeParseError (the call never
\* gets to build a tree), and tolerant mode never throws on it and goes on
\* until it has returned a forest.
C3_MixedIndentDivergence ==
  (\E n \in 1..Len(Lines) : ~Blank(Lines[n]) /\ MixedIndent(Lines[n])) =>
    IF Mode = "strict"
      THEN /\ pc \in {"tokenize", "thrown"}
           /\ pc = "tokenize" => index < Len(Lines)
           /\ pc = "thrown" => thrown.name = "TreeParseError"
      ELSE /\ pc # "thrown"
           /\ thrown = NoError
           /\ Running => CanStep

\* The test's input shape: a mixed line after a clean one, thrown in strict mode.
C3_Witness ==
  /\ Mode = "strict"
  /\ pc = "thrown"
  /\ Len(Lines) >= 2
  /\ ~MixedIndent(Lines[1])
  /\ MixedIndent(Lines[2]) /\ ~Blank(Lines[2])
  /\ thrown = TreeParseError("Mixed tabs and spaces in indentation", 2)

\* C4: in tolerant mode parseTreeBlock never throws, whatever the input, and
\* always goes on until it has returned a forest; so does the parse of the
\* rendered text.
C4_TolerantNeverThrows ==
  /\ Mode = "tolerant" =>
       /\ pc # "thrown"
       /\ thrown = NoError
       /\ Running => CanStep
  /\ reparsed.thrown = NoError

\* Tolerant mode has returned a forest for an input that violates a rule.
C4_Witness ==
  /\ Mode = "tolerant"
  /\ pc = "returned"
  /\ \E n \in 1..Len(Lines) : Violates("Non-monotonic indentation", n)
  /\ \E n \in 1..Len(Lines) :
       Violates("Invalid tree prefix after vertical connector", n)
  /\ result # << >>

\* C5: an error thrown in strict mode carries the 1-based number (blank lines
\* counted) of a line that itself violates the rule the message names, and the
\* message starts with that number.
C5_ErrorLineIsOffendingLine ==
  pc = "thrown" =>
    /\ thrown.name = "TreeParseError"
    /\ thrown.line \in 1..Len(Lines)
    /\ \E category \in Categories :
         /\ thrown.message = "Line " \o ToString(thrown.line) \o ": " \o category
         /\ Violates(category, thrown.line)

\* An error on line 3 of an input whose line 2 is blank and whose line 1 is fine.
C5_Witness ==
  /\ pc = "thrown"
  /\ thrown.line = 3
  /\ Blank(Lines[2])
  /\ \A category \in Categories : ~Violates(category, 1)

\* C6: in strict mode an input with a line that violates a structural rule
\* never gets a forest back: the call ends by throwing and result stays empty.
C6_StrictReturnsNoPartialTree ==
  /\ (Mode = "strict" /\ InputViolatesRule) =>
       /\ ~Returned
       /\ result = << >>
       /\ Running => CanStep
  /\ pc = "thrown" => result = << >>

\* Strict mode threw after nodes had been built from the lines before.
C6_Witness ==
  /\ Mode = "strict"
  /\ pc = "thrown"
  /\ Len(build.nodes) >= 2
  /\ result = << >>

\* C7: when the next token's level exceeds the stack length, tolerant mode
\* attaches the new node under the most recently added node (as a root when
\* there is none) and throws nothing; strict mode throws "Non-monotonic
\* indentation" with the token's line.
C7_DepthJump ==
  [][(pc = "build" /\ pos < Len(tokens)
        /\ tokens[pos + 1].level > Len(build.stack)) =>
       IF Mode = "strict"
         THEN /\ pc' = "thrown"
              /\ thrown' = TreeParseError("Non-monotonic indentation",
                                          tokens[pos + 1].line)
              /\ result' = << >>
         ELSE /\ pc' = "build" /\ thrown' = NoError
              /\ Len(build'.nodes) = Len(build.nodes) + 1
              /\ build'.nodes[Len(build'.nodes)].name = tokens[pos + 1].name
              /\ IF build.nodes = << >>
                   THEN build'.roots = <<1>>
                   ELSE /\ build'.roots = build.roots
                        /\ build'.nodes[Len(build.nodes)].children =
                             Append(build.nodes[Len(build.nodes)].children,
                                    Len(build'.nodes))]_vars

\* Tolerant mode has just attached a token two or more levels deeper than the
\* previous one under the node of the previous token.
C7_Witness ==
  /\ Mode = "tolerant"
  /\ pc = "build"
  /\ pos >= 2
  /\ tokens[pos].level > tokens[pos - 1].level + 1
  /\ build.nodes[pos - 1].children = <<pos>>

\* Name and depth of every node of a forest, in pre-order.
Shape(forest) ==
  [i \in 1..Len(Flatten(forest)) |->
     [name |-> Flatten(forest)[i].name, depth |-> Flatten(forest)[i].depth]]

\* C8: for a forest T returned in tolerant mode, parsing renderText(T) again
\* gives the node names of T, in the same order and at the same depths.
C8_RoundTripKeepsNames ==
  (pc = "reparsed" /\ Mode = "tolerant") =>
    /\ reparsed.thrown = NoError
    /\ Shape(reparsed.tree) = Shape(result)

\* What the code does in place of the round trip: parsing renderText(T) again
\* gives as many nodes as T, in the same order and at the same depths, but
\* each name is the name in T behind the "- " that renderText writes before
\* every label.
C8_RoundTripShape ==
  (pc = "reparsed" /\ Mode = "tolerant") =>
    /\ reparsed.thrown = NoError
    /\ Len(Shape(reparsed.tree)) = Len(Shape(result))
    /\ \A i \in 1..Len(Shape(result)) :
         /\ Shape(reparsed.tree)[i].depth = Shape(result)[i].depth
         /\ Shape(reparsed.tree)[i].name = <<DASH, SP>> \o Shape(result)[i].name

\* A forest three levels deep, built with a clamped level, has been rendered
\* and parsed again.
C8_Witness ==
  /\ pc = "reparsed"
  /\ Mode = "tolerant"
  /\ Len(result) = 1
  /\ \E i \in 1..Len(Shape(result)) : Shape(result)[i].depth = 2
  /\ \E n \in 1..Len(Lines) : Violates("Non-monotonic indentation", n)
  /\ Len(Shape(reparsed.tree)) = Len(tokens)

\* C9: for a line without tabs parseIndentation returns the number of
\* connectors in the prefix, plus floor(leading spaces / indentWidth), plus
\* one when a branch glyph follows the prefix.
C9_LevelIsSumOfUnits ==
  (pc = "returned" /\ \A i \in 1..Len(input) : input[i] # TAB) =>
    /\ indent.thrown = NoError
    /\ indent.level = SpecLevel(input, IndentWidthOpt)

\* Strict mode returned level 2 for a connector followed by two spaces and a
\* branch glyph.
C9_Witness ==
  /\ pc = "returned"
  /\ Mode = "strict"
  /\ input = <<PIPE, SP, SP, TEE, "a">>
  /\ indent.level = 2
  /\ indent.content = <<"a">>

\* The first connector of the line that has no space after it.
FirstBadConnector(line) ==
  CHOOSE i \in 1..Len(line) :
    /\ BadConnectorAt(line, i)
    /\ \A j \in 1..(i - 1) : ~BadConnectorAt(line, j)

\* The levels of the indentation units that end before position i.
LevelBefore(line, i, indentWidth) ==
  Cardinality({j \in 1..(i - 1) : line[j] = PIPE})
    + (LeadingSpaces(line) \div indentWidth)

\* C10 as stated: a connector with no space after it makes strict mode throw a
\* TreeParseError with the line number; tolerant mode throws nothing and takes
\* the connector as the end of the indentation, so that nothing after it adds
\* a level except a branch glyph directly behind it.
C10_BareConnectorEndsIndentation ==
  (pc # "parseIndentation" /\ BadConnector(input)
     /\ \A i \in 1..Len(input) : input[i] # TAB) =>
    IF Mode = "strict"
      THEN /\ pc = "thrown"
           /\ indent.thrown.name = "TreeParseError"
           /\ indent.thrown.line = index + 1
      ELSE /\ pc = "returned"
           /\ indent.thrown = NoError
           /\ indent.level >=
                LevelBefore(input, FirstBadConnector(input), IndentWidthOpt)
           /\ indent.level <=
                LevelBefore(input, FirstBadConnector(input), IndentWidthOpt) + 1
                  + (IF At(input, FirstBadConnector(input)) \in {TEE, ELBOW}
                       THEN 1 ELSE 0)

\* C11: a line (tabs of an unmixed leading run expanded) that starts with a
\* run of spaces whose length is not a multiple of indentWidth makes strict
\* mode throw "Indentation not aligned to indentWidth" with the line number;
\* tolerant mode throws nothing, returns, and the run counts for
\* floor(run / indentWidth) levels next to the connectors and the branch glyph.
C11_MisalignedSpaceRun ==
  (pc # "parseIndentation" /\ ~MixedIndent(input)
     /\ Misaligned(Expanded(input, TabWidthOpt), IndentWidthOpt)) =>
    IF Mode = "strict"
      THEN /\ pc = "thrown"
           /\ indent.thrown =
                TreeParseError("Indentation not aligned to indentWidth", index + 1)
      ELSE /\ pc = "returned"
           /\ indent.thrown = NoError
           /\ indent.level >=
                LeadingSpaces(Expanded(input, TabWidthOpt)) \div IndentWidthOpt
           /\ ~BadConnector(Expanded(input, TabWidthOpt)) =>
                indent.level = SpecLevel(Expanded(input, TabWidthOpt), IndentWidthOpt)

\* Tolerant mode returned level 2 for three spaces (one level of width 2, one
\* space over) before a connector.
C11_Witness ==
  /\ pc = "returned"
  /\ Mode = "tolerant"
  /\ IndentWidthOpt = 2
  /\ input = <<SP, SP, SP, PIPE, SP>>
  /\ indent.level = 2

\* C12: the tabs of the leading white space run are each read as tabWidth
\* spaces: parseIndentation gives the line what it gives the line written
\* with those spaces (level, content, error), a line indented by tabs only
\* gets floor(k * tabWidth / indentWidth) levels, and a tab behind the leading
\* run stays in the content.
C12_TabsExpandToSpaces ==
  (pc # "parseIndentation" /\ (Mode = "tolerant" \/ ~MixedIndent(input))) =>
    /\ indent = parseIndentation(Expanded(input, TabWidthOpt),
                                 resolveOptions(options), index + 1)
    /\ (pc = "returned" /\ ~BadConnector(Expanded(input, TabWidthOpt))) =>
         /\ indent.level = SpecLevel(Expanded(input, TabWidthOpt), IndentWidthOpt)
         /\ indent.content = SpecContent(Expanded(input, TabWidthOpt))

\* Two tabs of width 2 gave level 2 at indentWidth 2, and the tab between the
\* two letters is still in the content.
C12_Witness ==
  /\ pc = "returned"
  /\ TabWidthOpt = 2 /\ IndentWidthOpt = 2
  /\ input = <<TAB, TAB, "a", TAB, "a">>
  /\ indent.level = 2
  /\ indent.content = <<"a", TAB, "a">>

\* The name has a dot that is neither its first nor its last character.
InnerDot(name) == \E i \in 2..(Len(name) - 1) : name[i] = DOT
AnyDot(name) == \E i \in 1..Len(name) : name[i] = DOT

\* The part of the name before its first space or opening parenthesis.
BeforeMarker(name) == SubSeq(name, 1, RunLen(name, NameChars \ {SP, LPAREN}))

\* That part has a letter and no lower-case letter.
SpecAllCaps(name) ==
  /\ \E i \in 1..Len(BeforeMarker(name)) : BeforeMarker(name)[i] \in UpperLetters
  /\ \A i \in 1..Len(BeforeMarker(name)) : BeforeMarker(name)[i] \notin LowerLetters

\* buildTree returned one childless node made from a token without the marker.
UnmarkedLeaf ==
  /\ pc = "returned"
  /\ Len(tokens) = 1
  /\ ~tokens[1].explicitFolder

\* C13 as stated: an unmarked leaf is a file by the dot rule only if a dot
\* stands at a position that is neither first nor last; with dots at the first
\* or last position only, it is a file only if its name is all caps, and a
\* folder otherwise.
C13_DotRuleInnerOnly ==
  UnmarkedLeaf =>
    /\ InnerDot(tokens[1].name) => result[1].type = "file"
    /\ (~InnerDot(tokens[1].name) /\ ~SpecAllCaps(tokens[1].name))
         => result[1].type = "folder"

\* C13, amended: an unmarked leaf is a file by the dot rule if its name has a
\* dot at any position, the first and the last included; a name with no dot
\* is a file only if it is all caps.
C13_DotRuleAnyDot ==
  UnmarkedLeaf =>
    /\ result[1].name = tokens[1].name /\ result[1].children = << >>
    /\ AnyDot(tokens[1].name) => result[1].type = "file"
    /\ (~AnyDot(tokens[1].name) /\ result[1].type = "file")
         => SpecAllCaps(tokens[1].name)

\* A leaf whose only dot is its first character, and not all caps, is a file.
C13_Witness ==
  /\ UnmarkedLeaf
  /\ tokens[1].name = <<DOT, "a">>
  /\ result[1].type = "file"

\* C14 as stated: an unmarked leaf without a dot between its first and last
\* character is a file if and only if the part of its name before the first
\* space or parenthesis has a letter and only upper-case letters; otherwise it
\* is a folder.
C14_AllCapsWithoutInnerDot ==
  (UnmarkedLeaf /\ ~InnerDot(tokens[1].name)) =>
    result[1].type = IF SpecAllCaps(tokens[1].name) THEN "file" ELSE "folder"

\* C14, amended: the same for an unmarked leaf whose name has no dot at all.
C14_AllCapsWithoutDot ==
  (UnmarkedLeaf /\ ~AnyDot(tokens[1].name)) =>
    result[1].type = IF SpecAllCaps(tokens[1].name) THEN "file" ELSE "folder"

\* An upper-case word followed by a space and a lower-case remark in
\* parentheses is a file.
C14_Witness ==
  /\ UnmarkedLeaf
  /\ tokens[1].name = <<"B", SP, LPAREN, "a">>
  /\ result[1].type = "file"

\* The line is empty or made of spaces and tabs only.
SpaceTabOnly(raw) == \A i \in 1..Len(raw) : raw[i] \in {SP, TAB}
NotSpaceTabOnly(raw) == ~SpaceTabOnly(raw)

\* The input with its empty and white-space-only lines taken out.
TextWithoutBlankLines == Join(SelectSeq(Lines, NotSpaceTabOnly), <<LF>>)

\* C15: a line that is empty or holds only spaces and tabs never gets a token
\* and never is the line of an error, in either mode and also when it mixes
\* tabs and spaces; the call ends as it ends on the input without those
\* lines, and a returned forest is the forest of that input.
C15_BlankLinesAreSkipped ==
  /\ \A i \in 1..Len(tokens) : ~SpaceTabOnly(Lines[tokens[i].line])
  /\ pc = "thrown" =>
       /\ ~SpaceTabOnly(Lines[thrown.line])
       /\ parseTreeBlock(TextWithoutBlankLines, options).thrown # NoError
  /\ Returned =>
       parseTreeBlock(TextWithoutBlankLines, options) =
         [thrown |-> NoError, tree |-> result]

\* Strict mode returned a parent and its child from three lines whose second
\* is a space followed by a tab.
C15_Witness ==
  /\ Mode = "strict"
  /\ pc = "returned"
  /\ Len(Lines) = 3
  /\ Lines[2] = <<SP, TAB>>
  /\ Len(result) = 1
  /\ Len(result[1].children) = 1

\* The line gets a token: it is not blank and a name is left of it.
NamedLine(raw) == ~Blank(raw) /\ SpecName(Expanded(raw, TabWidthOpt)) # << >>

\* C16: the tokens are in source order with strictly increasing line fields;
\* each token's line is the 1-based position, among all lines of the split
\* input, of the line its name comes from; and the lines read so far that
\* have a name are exactly the lines of the tokens.
C16_TokenLinesAreSourceLines ==
  /\ \A i, j \in 1..Len(tokens) : i < j => tokens[i].line < tokens[j].line
  /\ \A i \in 1..Len(tokens) :
       /\ tokens[i].line \in 1..Len(Lines)
       /\ tokens[i].name = SpecName(Expanded(Lines[tokens[i].line], TabWidthOpt))
  /\ { tokens[i].line : i \in 1..Len(tokens) } =
       { n \in 1..index : NamedLine(Lines[n]) }

\* Tokenization is over with a token for line 3 behind a token for line 1,
\* line 2 having been skipped.
C16_Witness ==
  /\ pc = "build"
  /\ Len(tokens) = 2
  /\ tokens[1].line = 1
  /\ tokens[2].line = 3
  /\ ~NamedLine(Lines[2])

\* A line that is not blank and of which no name is left once the prefix and
\* one trailing marker are taken away.
EmptyNameLine(raw) == ~Blank(raw) /\ SpecName(Expanded(raw, TabWidthOpt)) = << >>
NotEmptyNameLine(raw) == ~EmptyNameLine(raw)

FirstEmptyNameLine ==
  CHOOSE n \in 1..Len(Lines) :
    /\ EmptyNameLine(Lines[n])
    /\ \A k \in 1..(n - 1) : ~EmptyNameLine(Lines[k])

TextWithoutEmptyNames == Join(SelectSeq(Lines, NotEmptyNameLine), <<LF>>)

\* The rules parseIndentation checks on a line before it looks at the content.
PrefixCategories ==
  { "Mixed tabs and spaces in indentation",
    "Invalid tree prefix after vertical connector",
    "Indentation not aligned to indentWidth" }

\* C17: with a line that is not blank and has an empty name, strict mode
\* throws a TreeParseError no later than at that line: with that line's number
\* unless an earlier line breaks a rule of the prefix, and as an empty line or
\* an empty name unless the line breaks such a rule itself.  Tolerant mode
\* makes no token of the line, and the forest it returns is the forest of the
\* input without such lines.
C17_EmptyNameLine ==
  (\E n \in 1..Len(Lines) : EmptyNameLine(Lines[n])) =>
    IF Mode = "strict"
      THEN /\ pc \in {"tokenize", "thrown"}
           /\ pc = "tokenize" => index < FirstEmptyNameLine
           /\ pc = "thrown" =>
                /\ thrown.name = "TreeParseError"
                /\ thrown.line <= FirstEmptyNameLine
                /\ thrown.line < FirstEmptyNameLine =>
                     \E category \in PrefixCategories :
                       Violates(category, thrown.line)
                /\ (\A n \in 1..FirstEmptyNameLine :
                      \A category \in PrefixCategories : ~Violates(category, n))
                     => thrown \in
                          { TreeParseError("Empty tree line", FirstEmptyNameLine),
                            TreeParseError("Invalid empty node name",
                                           FirstEmptyNameLine) }
      ELSE /\ \A i \in 1..Len(tokens) : ~EmptyNameLine(Lines[tokens[i].line])
           /\ pc # "thrown"
           /\ Returned =>
                parseTreeBlock(TextWithoutEmptyNames, options) =
                  [thrown |-> NoError, tree |-> result]

\* Tolerant mode returned a parent and its child from three lines whose
\* second is a branch glyph with nothing but the marker behind it.
C17_Witness ==
  /\ Mode = "tolerant"
  /\ pc = "returned"
  /\ Len(Lines) = 3
  /\ Lines[2] = <<TEE, HBAR, SP, SLASH>>
  /\ Len(result) = 1
  /\ Len(result[1].children) = 1

\* C18 as stated: every token name and every node name is non-empty, has no
\* white space at either end, and does not end with the folder marker.
C18_NamesNeverEndWithMarker ==
  /\ \A i \in 1..Len(tokens) :
       /\ tokens[i].name # << >>
       /\ Trim(tokens[i].name) = tokens[i].name
       /\ ~endsWith(tokens[i].name, SLASH)
  /\ Returned =>
       \A i \in 1..Len(Flatten(result)) :
         /\ Flatten(result)[i].name # << >>
         /\ Trim(Flatten(result)[i].name) = Flatten(result)[i].name
         /\ ~endsWith(Flatten(result)[i].name, SLASH)

\* The content of the line a token comes from.
ContentOfToken(i) == SpecContent(Expanded(Lines[tokens[i].line], TabWidthOpt))

\* C18, amended: every token name and every node name is non-empty and has no
\* white space at either end; exactly one trailing marker is removed from the
\* content (the name is what is left, trimmed), so the name of a line that
\* ends with two markers ends with one.
C18_OneMarkerRemoved ==
  /\ \A i \in 1..Len(tokens) :
       /\ tokens[i].name # << >>
       /\ Trim(tokens[i].name) = tokens[i].name
       /\ tokens[i].explicitFolder = endsWith(ContentOfToken(i), SLASH)
       /\ tokens[i].explicitFolder =>
            tokens[i].name =
              Trim(SubSeq(ContentOfToken(i), 1, Len(ContentOfToken(i)) - 1))
       /\ ~tokens[i].explicitFolder => tokens[i].name = ContentOfToken(i)
  /\ Returned =>
       /\ Len(Flatten(result)) = Len(tokens)
       /\ \A i \in 1..Len(tokens) : Flatten(result)[i].name = tokens[i].name

\* A returned node named "c/", from a line that ends with two markers.
C18_Witness ==
  /\ pc = "returned"
  /\ \E i \in 1..Len(tokens) :
       /\ Lines[tokens[i].line] = <<"c", SLASH, SLASH>>
       /\ Flatten(result)[i].name = <<"c", SLASH>>
       /\ Flatten(result)[i].type = "folder"

\* C19: for every input text the parseTreeBlock of the VS Code preview
\* returns the forest (names, types, nesting, order) that the core
\* parseTreeBlock returns with default options.
C19_PreviewEqualsCore ==
  pc = "compared" =>
    /\ thrown = NoError
    /\ preview = result

\* The entity of a sensitive character; any other character stands for itself.
EntityOf(c) ==
  CASE c = AMP -> <<"&", "a", "m", "p", ";">>
    [] c = LT -> <<"&", "l", "t", ";">>
    [] c = GT -> <<"&", "g", "t", ";">>
    [] c = QUOT -> <<"&", "q", "u", "o", "t", ";">>
    [] c = APOS -> <<"&", "#", "3", "9", ";">>
    [] OTHER -> <<c>>

Entities == { EntityOf(c) : c \in {AMP, LT, GT, QUOT, APOS} }

\* The label of the k-th node of the output: what stands between the k-th
\* opening of a label span and the first closing after it.
LabelOfNode(out, k) ==
  LET opens == {i \in 1..Len(out) : out[i] = SpanOpen}
      from == CHOOSE i \in opens : Cardinality({j \in opens : j < i}) = k - 1
      to == CHOOSE i \in (from + 1)..Len(out) :
              /\ out[i] = SpanClose
              /\ \A j \in (from + 1)..(i - 1) : out[j] # SpanClose
  IN  SubSeq(out, from + 1, to - 1)

FirstLabel(out) == LabelOfNode(out, 1)

\* C20: the output has one label per node, in pre-order; a label holds no raw
\* <, >, double or single quote, every & in it starts one of the five
\* entities, and the label is the name with each sensitive character written
\* as its own entity, once, and every other character unchanged and in place.
C20_LabelIsEscapedOnce ==
  pc = "rendered" =>
    /\ Cardinality({i \in 1..Len(text) : text[i] = SpanOpen})
         = Len(Flatten(result))
    /\ \A k \in 1..Len(Flatten(result)) :
         /\ \A i \in 1..Len(LabelOfNode(text, k)) :
              /\ LabelOfNode(text, k)[i] \notin {LT, GT, QUOT, APOS}
              /\ LabelOfNode(text, k)[i] = AMP =>
                   \E e \in Entities :
                     /\ i + Len(e) - 1 <= Len(LabelOfNode(text, k))
                     /\ SubSeq(LabelOfNode(text, k), i, i + Len(e) - 1) = e
         /\ LabelOfNode(text, k) =
              Concat([i \in 1..Len(Flatten(result)[k].name) |->
                        EntityOf(Flatten(result)[k].name[i])])

\* The name <&" of a folder has been rendered as &lt;&amp;&quot;.
C20_Witness ==
  /\ pc = "rendered"
  /\ result[1].name = <<LT, AMP, QUOT>>
  /\ result[1].type = "folder"
  /\ FirstLabel(text) =
       <<"&", "l", "t", ";", "&", "a", "m", "p", ";", "&", "q", "u", "o", "t", ";">>

\* The label renderText is to write for a node: its name, with the marker
\* appended when it is a folder.
TextLabel(n) == IF n.type = "folder" THEN Append(n.name, SLASH) ELSE n.name

\* C22: renderText gives one line per node in pre-order, each line two spaces
\* per depth level and then the name, with the marker appended for a folder,
\* and nothing else.
C22_TextLinesNameOnly ==
  pc \in {"rendered", "reparsed"} =>
    text = Join([i \in 1..Len(Flatten(result)) |->
                   [k \in 1..(2 * Flatten(result)[i].depth) |-> SP]
                     \o TextLabel(Flatten(result)[i])],
                <<LF>>)

\* What the code writes in place of that line: the same, with "- " between
\* the indentation and the name.
C22_TextLinesWithListMarker ==
  pc \in {"rendered", "reparsed"} =>
    text = Join([i \in 1..Len(Flatten(result)) |->
                   [k \in 1..(2 * Flatten(result)[i].depth) |-> SP]
                     \o <<DASH, SP>> \o TextLabel(Flatten(result)[i])],
                <<LF>>)

\* A forest with a folder at depth 0 and a file at depth 2 has been rendered
\* on three lines.
C22_Witness ==
  /\ pc = "rendered"
  /\ Len(Flatten(result)) = 3
  /\ Flatten(result)[1].type = "folder"
  /\ Flatten(result)[3].depth = 2
  /\ Flatten(result)[3].type = "file"
  /\ Len(SplitLines(text)) = 3

\* C24: when buildTree has returned, the forest has one node per token: its
\* pre-order lists the token names in token order, the roots and the children
\* of every node stand in the order of their tokens, and every node but the
\* roots is the child of exactly one node.
C24_OneNodePerTokenInOrder ==
  Returned =>
    /\ Len(Flatten(result)) = Len(tokens)
    /\ \A i \in 1..Len(tokens) : Flatten(result)[i].name = tokens[i].name
    /\ Len(build.nodes) = Len(tokens)
    /\ \A k \in 1..(Len(build.roots) - 1) : build.roots[k] < build.roots[k + 1]
    /\ \A id \in 1..Len(build.nodes) :
         /\ \A k \in 1..(Len(build.nodes[id].children) - 1) :
              build.nodes[id].children[k] < build.nodes[id].children[k + 1]
         /\ Cardinality({p \in 1..Len(build.nodes) :
                           \E k \in 1..Len(build.nodes[p].children) :
                             build.nodes[p].children[k] = id})
              + Cardinality({k \in 1..Len(build.roots) : build.roots[k] = id}) = 1

\* Three tokens have become a root holding the second and the third as its
\* children.
C24_Witness ==
  /\ pc = "returned"
  /\ Len(tokens) = 3
  /\ build.roots = <<1>>
  /\ build.nodes[1].children = <<2, 3>>
  /\ Len(result[1].children) = 2

\* min(a, b)
Min(a, b) == IF a < b THEN a ELSE b

\* C25: in a forest returned in strict mode every node's depth is the level
\* of its token, the first level is 0 and a level is at most one more than
\* the level before; in tolerant mode the depth of the first node is 0 and the
\* depth of any other is min(its level, depth of the node before it + 1).
C25_DepthFromLevel ==
  Returned =>
    /\ Len(Flatten(result)) = Len(tokens)
    /\ IF Mode = "strict"
         THEN \A i \in 1..Len(tokens) :
                /\ Flatten(result)[i].depth = tokens[i].level
                /\ tokens[i].level <= (IF i = 1 THEN 0 ELSE tokens[i - 1].level + 1)
         ELSE \A i \in 1..Len(tokens) :
                Flatten(result)[i].depth =
                  IF i = 1 THEN 0
                  ELSE Min(tokens[i].level, Flatten(result)[i - 1].depth + 1)

\* Tolerant mode returned a forest whose second node sits at depth 1 for a
\* level of 2 or more and whose third node is back at depth 0.
C25_Witness ==
  /\ pc = "returned"
  /\ Mode = "tolerant"
  /\ Len(tokens) = 3
  /\ tokens[2].level >= 2
  /\ Flatten(result)[2].depth = 1
  /\ Flatten(result)[3].depth = 0

\* C26: once buildTree has processed a token, the stack holds the chain from a
\* root down to the node just added: its first entry is the root added last,
\* each entry is the child added last to the entry before it, its top is the
\* new node; and "Invalid tree structure" is never thrown.
C26_StackIsAncestorChain ==
  /\ (pc = "build" /\ pos >= 1) =>
       /\ build.stack # << >>
       /\ build.stack[1] = build.roots[Len(build.roots)]
       /\ build.stack[Len(build.stack)] = pos
       /\ Len(build.nodes) = pos
       /\ \A k \in 1..(Len(build.stack) - 1) :
            /\ build.nodes[build.stack[k]].children # << >>
            /\ build.stack[k + 1] =
                 build.nodes[build.stack[k]].children[
                   Len(build.nodes[build.stack[k]].children)]
  /\ pc = "build" /\ pos = 0 => build.stack = << >>
  /\ thrown.message # "Line " \o ToString(thrown.line) \o ": Invalid tree structure"

\* The stack is three deep after the third token.
C26_Witness ==
  /\ pc = "build"
  /\ pos = 3
  /\ build.stack = <<1, 2, 3>>

\* C27: a forest that strict mode returns is the forest tolerant mode returns
\* for the same input and the same widths.
C27_TolerantAgreesWithStrict ==
  (pc = "returned" /\ Mode = "strict") =>
    /\ parseTreeBlock(input, [options EXCEPT !.mode = <<"tolerant">>])
         = [thrown |-> NoError, tree |-> result]
    /\ parseTreeBlock(input, [options EXCEPT !.mode = << >>])
         = [thrown |-> NoError, tree |-> result]

\* Strict mode with tabWidth 1 and indentWidth 3 returned a parent and its
\* child from a line indented by three spaces.
C27_Witness ==
  /\ pc = "returned"
  /\ Mode = "strict"
  /\ IndentWidthOpt = 3
  /\ Len(Lines) = 2
  /\ Lines[2] = <<SP, SP, SP, "h">>
  /\ Len(result) = 1
  /\ Len(result[1].children) = 1

\* The rules tokenizeLines checks, line by line.
TokenizeCategories ==
  PrefixCategories \cup {"Empty tree line", "Invalid empty node name"}

FailsTokenizing(n) == \E category \in TokenizeCategories : Violates(category, n)

\* The first line of the input for which Test holds.
FirstLine(Test(_)) ==
  CHOOSE n \in 1..Len(Lines) : Test(n) /\ \A k \in 1..(n - 1) : ~Test(k)

NonMonotonic(n) == Violates("Non-monotonic indentation", n)

\* C28: every line is tokenized before a node is built.  When a line breaks a
\* rule of tokenization the error thrown is a tokenization error of the first
\* such line, whatever the depth jumps on lines before it; "Non-monotonic
\* indentation" is thrown only when no line breaks a rule of tokenization, and
\* then for the first line that jumps.
C28_TokenizationErrorsFirst ==
  /\ pc = "tokenize" => build = EmptyBuild /\ pos = 0
  /\ pc = "build" => index = Len(Lines)
  /\ pc = "thrown" =>
       IF \E n \in 1..Len(Lines) : FailsTokenizing(n)
         THEN /\ thrown.line = FirstLine(FailsTokenizing)
              /\ \E category \in TokenizeCategories :
                   /\ Violates(category, thrown.line)
                   /\ thrown = TreeParseError(category, thrown.line)
              /\ build = EmptyBuild
         ELSE /\ \E n \in 1..Len(Lines) : NonMonotonic(n)
              /\ thrown = TreeParseError("Non-monotonic indentation",
                                         FirstLine(NonMonotonic))

\* Strict mode threw the tokenization error of line 3 although line 2 jumps
\* two levels.
C28_Witness ==
  /\ pc = "thrown"
  /\ Len(Lines) = 3
  /\ NonMonotonic(2)
  /\ ~FailsTokenizing(1) /\ ~FailsTokenizing(2)
  /\ FailsTokenizing(3)
  /\ thrown.line = 3

\* In a pre-order list the parent of node i is the nearest node before it
\* that is one level higher.
ParentIndex(flat, i) ==
  CHOOSE j \in 1..(i - 1) :
    /\ flat[j].depth = flat[i].depth - 1
    /\ \A k \in (j + 1)..(i - 1) : flat[k].depth >= flat[i].depth

\* The positions of the node lines and of the edge lines of a diagram.
NodeLines(ls) == {i \in 2..Len(ls) : Len(ls[i]) >= 3 /\ ls[i][3] = "["}
EdgeLines(ls) == {i \in 2..Len(ls) : Len(ls[i]) >= 3 /\ ls[i][3] = " --> "}

\* The position of the k-th node line.
NodeLineAt(ls, k) ==
  CHOOSE i \in NodeLines(ls) : Cardinality({j \in NodeLines(ls) : j < i}) = k - 1

\* C21: behind "graph TD" the diagram has one node line per node, the k-th of
\* them giving the k-th node in pre-order the identifier nk and its label
\* (the name, with the marker appended for a folder); it has one edge line
\* per node that is not a root, from the identifier of its parent to its own,
\* no edge into a root, and no other line.
C21_MermaidIdsAndEdges ==
  pc = "mermaid" =>
    /\ SplitLines(text)[1] = <<"graph TD">>
    /\ Cardinality(NodeLines(SplitLines(text))) = Len(Flatten(result))
    /\ Cardinality(EdgeLines(SplitLines(text)))
         = Len(Flatten(result)) - Len(result)
    /\ Len(SplitLines(text))
         = 1 + Len(Flatten(result)) + (Len(Flatten(result)) - Len(result))
    /\ \A k \in 1..Len(Flatten(result)) :
         /\ SplitLines(text)[NodeLineAt(SplitLines(text), k)] =
              <<"n", ToString(k), "[", QUOT>>
                \o TextLabel(Flatten(result)[k]) \o <<QUOT, "]">>
         /\ Cardinality({i \in EdgeLines(SplitLines(text)) :
                           SubSeq(SplitLines(text)[i], 4, 5) = <<"n", ToString(k)>>})
              = IF Flatten(result)[k].depth = 0 THEN 0 ELSE 1
         /\ Flatten(result)[k].depth > 0 =>
              \E i \in EdgeLines(SplitLines(text)) :
                SplitLines(text)[i] =
                  <<"n", ToString(ParentIndex(Flatten(result), k)), " --> ",
                    "n", ToString(k)>>

\* The diagram of a root with two children: three node lines and the edges
\* n1 --> n2 and n1 --> n3.
C21_Witness ==
  /\ pc = "mermaid"
  /\ Len(result) = 1
  /\ Len(result[1].children) = 2
  /\ Len(SplitLines(text)) = 6
  /\ SplitLines(text)[6] = <<"n", "1", " --> ", "n", "3">>

(***************************************************************************)
(* Vocabulary of the claims about the CLI.                                  *)
(***************************************************************************)
MdLines == SplitLines(input)
Called == pc \in {"replaced", "threw", "again"}

\* What follows the backticks of a fence line, trimmed.
InfoString(line) == Trim(SliceFrom(line, BacktickRun(line)))

\* An opening fence whose info string is exactly tree.
ExactTreeFence(line) ==
  BacktickRun(line) >= 3 /\ InfoString(line) = <<"t", "r", "e", "e">>

\* A line of exactly n backticks followed by optional white space.
ClosesFence(line, n) ==
  BacktickRun(line) = n /\ Trim(SliceFrom(line, n)) = << >>

\* Index of the first line after position from that closes a fence of n
\* backticks, 0 when there is none.
RECURSIVE FirstClosing(_, _, _)
FirstClosing(lines, from, n) ==
  IF from >= Len(lines) THEN 0
  ELSE IF ClosesFence(lines[from + 1], n) THEN from + 1
  ELSE FirstClosing(lines, from + 1, n)

\* The output the claims describe for the lines from position from + 1 on:
\* a line outside a tree block is copied, a tree block from its opening
\* fence to its closing fence is replaced by the rendering of its content.
RECURSIVE DescribedOutput(_, _, _)
DescribedOutput(lines, from, cliOptions) ==
  IF from >= Len(lines) THEN [unclosed |-> FALSE, output |-> << >>]
  ELSE IF ~ExactTreeFence(lines[from + 1])
    THEN Bind(DescribedOutput(lines, from + 1, cliOptions), LAMBDA r :
           [unclosed |-> r.unclosed, output |-> <<lines[from + 1]>> \o r.output])
  ELSE Bind(FirstClosing(lines, from + 1, BacktickRun(lines[from + 1])),
         LAMBDA close :
           IF close = 0 THEN [unclosed |-> TRUE, output |-> << >>]
           ELSE Bind(DescribedOutput(lines, close, cliOptions), LAMBDA r :
                  [unclosed |-> r.unclosed,
                   output |->
                     renderReplacement(
                       Join(SubSeq(lines, from + 2, close - 1), <<LF>>),
                       cliOptions) \o r.output]))

\* C23: replaceTreeBlocks replaces a fenced block only when the info string
\* of its opening fence is exactly tree: a text none of whose lines is such
\* a fence (its fences are tree-view, tree x, trees, or have no info string)
\* never makes the call throw and every line of it is copied to the output
\* array unchanged.
C23_OnlyExactTreeInfoString ==
  (Called /\ \A i \in 1..Len(MdLines) : ~ExactTreeFence(MdLines[i]))
    => (thrown = NoCliError /\ result = MdLines)

\* C29: a tree fence of n backticks is closed by the first later line of
\* exactly n backticks and optional white space; without such a line the
\* call throws the unclosed-block error and returns nothing; otherwise the
\* output array is the lines outside the tree blocks, unchanged and in
\* order, with the rendering of each block in the place of the lines from
\* its opening fence to its closing fence.
C29_BlocksClosedAndLinesCopied ==
  Called =>
    IF DescribedOutput(MdLines, 0, options).unclosed
      THEN pc = "threw" /\ thrown = UnclosedError /\ text = << >>
      ELSE /\ thrown = NoCliError
           /\ result = DescribedOutput(MdLines, 0, options).output

\* The document before the tags are injected: the output array joined.
Replaced == Join(result, <<LF>>)

\* Number of lines of a closed leading YAML front matter, 0 without one.
FrontMatterLines(lines) ==
  IF lines[1] = <<DASH, DASH, DASH>>
       /\ \E i \in 2..Len(lines) : lines[i] = <<DASH, DASH, DASH>>
    THEN CHOOSE i \in 2..Len(lines) :
           /\ lines[i] = <<DASH, DASH, DASH>>
           /\ \A j \in 2..(i - 1) : lines[j] # <<DASH, DASH, DASH>>
    ELSE 0

\* The document with the style tag, the link tag and an empty line at its
\* very top or directly after its front matter.
WithTags(doc) ==
  Join(SubSeq(SplitLines(doc), 1, FrontMatterLines(SplitLines(doc)))
         \o <<cssStyleTag, cssLinkTag, << >> >>
         \o SubSeq(SplitLines(doc), FrontMatterLines(SplitLines(doc)) + 1,
                   Len(SplitLines(doc))),
       <<LF>>)

\* C30: the tags are injected once, at the very top or directly after a
\* closed leading front matter, exactly when neither text nor htmlOnly is
\* set and the input does not contain the marker; and replaceTreeBlocks on
\* its own output, with the same options, returns that output unchanged.
C30_InjectedOnceAndIdempotent ==
  /\ pc \in {"replaced", "again"} =>
       text = IF ~options.text /\ ~options.htmlOnly
                   /\ ~includesString(input, cssMarker)
                THEN WithTags(Replaced) ELSE Replaced
  /\ pc = "again" =>
       (reparsed.thrown = NoCliError /\ reparsed.returned = text)

====
